---------------------------- MODULE Spec2Model ----------------------------
(***************************************************************************)
(* A model of gocache: the response store (internal/cache/cache.go), the   *)
(* proxy request pipeline, its cache keys and its certificate store        *)
(* (internal/proxy/proxy.go).                                              *)
(*                                                                         *)
(* Strings are sequences of tokens (each token a TLA+ string), so that     *)
(* concatenation, prefix and substring tests are computed, not assumed.    *)
(* http.Header values are heap objects: a cache entry and an origin        *)
(* response hold a reference to the map, as they do in Go.                 *)
(***************************************************************************)
EXTENDS Integers, Sequences, FiniteSets, TLC

VARIABLES cache, now, ret, nops, used, heap, config, conn, nreq, sent,
          fp, certCache, certLRUList, certEvictions, getCertCalls, serial,
          certUse, file, trip, proc

\* The certificate store of the proxy, the calls of getCert in progress, the
\* serial number of the last leaf minted, and the recency of use of each host.
certVars == <<certCache, certLRUList, certEvictions, getCertCalls, serial,
              certUse>>

\* The response store, the clock and the request pipeline.
serverVars == <<cache, now, ret, nops, used, heap, config, conn, nreq, sent>>

\* The cache file of the persistence section, the progress of a round trip
\* through it (what the last SaveToFile was called on, and whether a new
\* store and a load followed), and the process with its goroutines.
osVars == <<file, trip, proc>>

vars == <<serverVars, fp, certVars, osVars>>

(***************************************************************************)
(* Bounds of the model.                                                    *)
(***************************************************************************)
\* Number of calls made on the store's API in one behaviour.
MaxOps == 4
\* Number of requests the clients issue in one behaviour.
MaxRequests == 2
\* The clock stops advancing at this instant.
MaxTime == 3
\* Number of client connections served concurrently.
NumConns == 2
\* Bytes per megabyte, scaled down (1024 * 1024 in the source).
MB == 3
\* Number of goroutines calling getCert concurrently.
NumGoroutines == 2
\* Number of leaf certificates minted in one behaviour.
MaxCerts == 5

Conns == 1..NumConns
\* Addresses of header maps: at most one per stored entry and connection.
HeaderIds == 1..(MaxRequests + NumConns)

(***************************************************************************)
(* String helpers (package strings).                                       *)
(***************************************************************************)
HasPrefix(s, prefix) ==
    /\ Len(prefix) <= Len(s)
    /\ \A i \in 1..Len(prefix) : s[i] = prefix[i]

Contains(s, substr) ==
    \E i \in 0..(Len(s) - Len(substr)) :
        \A j \in 1..Len(substr) : s[i + j] = substr[j]

Repeat(tok, n) == [i \in 1..n |-> tok]

(***************************************************************************)
(* The response store: MemoryCache.                                        *)
(***************************************************************************)
\* An http.Header: for each field name the list of its values, one per
\* header line, each value a text.
NoHeader == [ContentType |-> <<>>, CacheControl |-> <<>>,
             Pragma |-> <<>>, XCache |-> <<>>]

\* http.Header.Get: the first value of the field, "" when there is none.
HeaderGet(values) == IF values = <<>> THEN <<>> ELSE values[1]

NoEntry == [StatusCode |-> 0, Headers |-> 0, Body |-> <<>>, Expiry |-> 0]

\* NewMemoryCache: an empty map, an empty list, maxSize in bytes.
NewMemoryCache(defaultTTL, maxSizeMB) ==
    [items |-> <<>>, lruList |-> <<>>, currentSize |-> 0,
     maxSize |-> maxSizeMB * MB, defaultTTL |-> defaultTTL,
     hits |-> 0, misses |-> 0, evictions |-> 0]

\* delete(c.items, key)
MapDelete(m, key) == [k \in DOMAIN m \ {key} |-> m[k]]

\* list.Remove(elem): unlinks elem when it is an element of the list.
ListRemove(l, elem) == SelectSeq(l, LAMBDA n : n # elem)

\* list.MoveToFront(elem): no-op when elem is not an element of the list.
ListMoveToFront(l, elem) ==
    IF \E i \in 1..Len(l) : l[i] = elem
    THEN <<elem>> \o ListRemove(l, elem)
    ELSE l

removeElementKeepLinked(c, elem) ==
    [c EXCEPT !.items = MapDelete(@, elem.key),
              !.currentSize = @ - elem.size]
removeElementKeepSize(c, elem) ==
    [c EXCEPT !.lruList = ListRemove(@, elem),
              !.items = MapDelete(@, elem.key)]
removeElement(c, elem) ==
    [c EXCEPT !.lruList = ListRemove(@, elem),
              !.items = MapDelete(@, elem.key),
              !.currentSize = @ - elem.size]

\* evictLRU as a pair: the store after the call and its boolean result.
evictLRUUncounted(c) ==
    IF c.lruList = <<>>
    THEN [c |-> c, ok |-> FALSE]
    ELSE [c |-> removeElement(c, c.lruList[Len(c.lruList)]), ok |-> TRUE]
evictLRUFront(c) ==
    IF c.lruList = <<>>
    THEN [c |-> c, ok |-> FALSE]
    ELSE [c |-> [removeElement(c, c.lruList[1])
                     EXCEPT !.evictions = @ + 1],
          ok |-> TRUE]
evictLRU(c) ==
    IF c.lruList = <<>>
    THEN [c |-> c, ok |-> FALSE]
    ELSE [c |-> [removeElement(c, c.lruList[Len(c.lruList)])
                     EXCEPT !.evictions = @ + 1],
          ok |-> TRUE]

RECURSIVE evictLoop(_, _)
evictLoop(c, neededSize) ==
    IF c.currentSize + neededSize > c.maxSize
    THEN LET r == evictLRU(c)
         IN  IF r.ok THEN evictLoop(r.c, neededSize) ELSE c
    ELSE c

evictUntilSizeNever(c, neededSize) == c
evictUntilSize(c, neededSize) ==
    IF c.maxSize = 0 THEN c ELSE evictLoop(c, neededSize)

\* Get returns the store after the call, the entry and the found flag;
\* branch names the return statement taken.
GetResult(c, entry, ok, branch) ==
    [c |-> c, entry |-> entry, ok |-> ok, branch |-> branch]

GetNoExpiry(c, key, t) ==
    IF key \notin DOMAIN c.items
    THEN GetResult([c EXCEPT !.misses = @ + 1], NoEntry, FALSE, "absent")
    ELSE LET elem == c.items[key]
         IN  GetResult([c EXCEPT !.lruList = ListMoveToFront(@, elem),
                                 !.hits = @ + 1],
                       elem.entry, TRUE, "hit")
Get(c, key, t) ==
    IF key \notin DOMAIN c.items
    THEN GetResult([c EXCEPT !.misses = @ + 1], NoEntry, FALSE, "absent")
    ELSE LET elem == c.items[key]
         IN  IF t > elem.entry.Expiry
             THEN GetResult([removeElement(c, elem) EXCEPT !.misses = @ + 1],
                            NoEntry, FALSE, "expired")
             ELSE GetResult([c EXCEPT !.lruList = ListMoveToFront(@, elem),
                                      !.hits = @ + 1],
                            elem.entry, TRUE, "hit")

\* SetWithTTL after the size check: replace, evict, link at the front.
insertEntryKeepOld(c, key, entry, ttl, t) ==
    LET entrySize == Len(entry.Body)
        c2 == evictUntilSize(c, entrySize)
        node == [key |-> key,
                 entry |-> [entry EXCEPT !.Expiry = t + ttl],
                 size |-> entrySize]
    IN  [c2 EXCEPT !.lruList = <<node>> \o @,
                   !.items = (key :> node) @@ @,
                   !.currentSize = @ + entrySize]
insertEntry(c, key, entry, ttl, t) ==
    LET entrySize == Len(entry.Body)
        c1 == IF key \in DOMAIN c.items
              THEN removeElement(c, c.items[key]) ELSE c
        c2 == evictUntilSize(c1, entrySize)
        node == [key |-> key,
                 entry |-> [entry EXCEPT !.Expiry = t + ttl],
                 size |-> entrySize]
    IN  [c2 EXCEPT !.lruList = <<node>> \o @,
                   !.items = (key :> node) @@ @,
                   !.currentSize = @ + entrySize]

\* The size check of SetWithTTL: a single entry larger than the store.
TooLarge(c, entry) == c.maxSize > 0 /\ Len(entry.Body) > c.maxSize

SetWithTTLKeepFirst(c, key, entry, ttl, t) ==
    IF key \in DOMAIN c.items \/ TooLarge(c, entry)
    THEN c
    ELSE insertEntry(c, key, entry, ttl, t)
SetWithTTLNoReject(c, key, entry, ttl, t) == insertEntry(c, key, entry, ttl, t)
SetWithTTL(c, key, entry, ttl, t) ==
    IF TooLarge(c, entry)
    THEN c
    ELSE insertEntry(c, key, entry, ttl, t)

Set(c, key, entry, t) == SetWithTTL(c, key, entry, c.defaultTTL, t)

PurgeAllKeepStats(c) ==
    [c |-> [c EXCEPT !.items = <<>>, !.lruList = <<>>],
     count |-> Cardinality(DOMAIN c.items)]

\* PurgeAll: the store after the call and the count returned.
PurgeAll(c) ==
    [c |-> [c EXCEPT !.items = <<>>, !.lruList = <<>>, !.currentSize = 0,
                     !.hits = 0, !.misses = 0, !.evictions = 0],
     count |-> Cardinality(DOMAIN c.items)]

\* UpdateTTL sets the default TTL and nothing else.
UpdateTTLPurging(c, newTTL) == [PurgeAll(c).c EXCEPT !.defaultTTL = newTTL]
UpdateTTL(c, newTTL) == [c EXCEPT !.defaultTTL = newTTL]

PurgeByURL(c, rawURL) ==
    IF rawURL \in DOMAIN c.items
    THEN [c |-> removeElement(c, c.items[rawURL]), found |-> TRUE]
    ELSE [c |-> c, found |-> FALSE]

\* removeElement applied to every element of a set of elements.
RECURSIVE removeAll(_, _)
removeAll(c, elems) ==
    IF elems = {} THEN c
    ELSE LET e == CHOOSE x \in elems : TRUE
         IN  removeAll(removeElement(c, e), elems \ {e})

\* url.Parse(key).Host for the keys of the model: the tokens between
\* "://" and the first "/", "?" or "#".
RECURSIVE HostEnd(_, _)
HostEnd(key, i) ==
    IF i > Len(key) \/ key[i] \in {"/", "?", "#"} THEN i - 1
    ELSE HostEnd(key, i + 1)

ParseHost(key) == SubSeq(key, 3, HostEnd(key, 3))

\* url.Parse succeeds on scheme://host... unless the text after the last
\* ":" of the authority is not a number (an invalid port).
ParseOK(key) ==
    /\ Len(key) >= 2
    /\ key[2] = "://"
    /\ \A i \in 1..Len(ParseHost(key)) : ParseHost(key)[i] # ":"

PurgeByDomainExact(c, domain) ==
    LET elems == {c.items[k] : k \in {k \in DOMAIN c.items :
                      ParseOK(k) /\ ParseHost(k) = domain}}
    IN  [c |-> removeAll(c, elems), count |-> Cardinality(elems)]

PurgeByDomain(c, domain) ==
    LET elems == {c.items[k] : k \in {k \in DOMAIN c.items :
                      ParseOK(k) /\ HasPrefix(ParseHost(k), domain)}}
    IN  [c |-> removeAll(c, elems), count |-> Cardinality(elems)]

removeExpiredEntriesInclusive(c, t) ==
    removeAll(c, {c.items[k] : k \in {k \in DOMAIN c.items :
                      t >= c.items[k].entry.Expiry}})
removeExpiredEntries(c, t) ==
    removeAll(c, {c.items[k] : k \in {k \in DOMAIN c.items :
                      t > c.items[k].entry.Expiry}})

\* The last call on the store: the function, its key and body arguments,
\* the return statement taken, and what it returned: Get's entry and
\* found flag, the count of PurgeAll and PurgeByDomain, the found flag of
\* PurgeByURL.
Ret(fn, key, body, branch, entry, ok, count) ==
    [fn |-> fn, key |-> key, body |-> body, branch |-> branch,
     entry |-> entry, ok |-> ok, count |-> count]

NoRet == Ret("", <<>>, <<>>, "", NoEntry, FALSE, 0)

(***************************************************************************)
(* Persistence (internal/cache/cache.go, SaveToFile and LoadFromFile) and  *)
(* the process (cmd/gocache/main.go).                                      *)
(***************************************************************************)
\* A *list.Element as encoding/gob transmits it. gob encodes the exported
\* fields of a struct: of list.Element that is Value alone, an interface
\* whose concrete type must have been registered. A nil Value is not sent,
\* and a decoder leaves Value nil when the stream carries no Value, whatever
\* other fields the stream carries for the element.
NilElement == [Value |-> "nil"]

\* The cache file: missing, or a gob stream of a map. elems are the keys of
\* the map that a decoder reads before the end of the stream or its first
\* damaged byte, and damaged tells whether the stream is damaged.
NoFile == [kind |-> "missing", elems |-> {}, damaged |-> FALSE]

GobFile(keys, damaged) ==
    [kind |-> "gob", elems |-> keys, damaged |-> damaged]

\* elem.Value.(*cacheNode) panics on the element of key.
Panics(c, key) == key \in DOMAIN c.items /\ c.items[key] = NilElement

\* encoder.Encode(c.items) succeeds: no element holds a *cacheNode, a type
\* that is not registered with gob.
Encodes(c) == \A k \in DOMAIN c.items : c.items[k] = NilElement

\* The steps of SaveToFile that the operating system can fail.
SaveFailures == {"MkdirAll", "CreateTemp", "Encode", "Close", "Rename"}

\* SaveToFile as a pair: the file afterwards and the error returned ("" for
\* nil). failure is the step that the operating system fails, "" for none.
\* The temporary file is removed by the deferred os.Remove.
SaveToFileInPlace(c, f, failure) ==
    IF failure \in {"MkdirAll", "CreateTemp"}
    THEN [file |-> f, err |-> failure]
    ELSE IF failure = "Encode" \/ ~Encodes(c)
    THEN [file |-> GobFile({}, TRUE), err |-> "Encode"]
    ELSE IF failure \in {"Close", "Rename"}
    THEN [file |-> GobFile(DOMAIN c.items, FALSE), err |-> failure]
    ELSE [file |-> GobFile(DOMAIN c.items, FALSE), err |-> ""]
SaveToFile(c, f, failure) ==
    IF failure \in {"MkdirAll", "CreateTemp"}
    THEN [file |-> f, err |-> failure]
    ELSE IF failure = "Encode" \/ ~Encodes(c)
    THEN [file |-> f, err |-> "Encode"]
    ELSE IF failure \in {"Close", "Rename"}
    THEN [file |-> f, err |-> failure]
    ELSE [file |-> GobFile(DOMAIN c.items, FALSE), err |-> ""]

\* LoadFromFile as a pair: the store afterwards and the error returned.
\* decoder.Decode(&c.items) decodes into the map of the store: it sets the
\* key of each element it reads, and leaves lruList and currentSize alone.
LoadFromFile(c, f) ==
    IF f.kind = "missing"
    THEN [c |-> c, err |-> "Open"]
    ELSE [c |-> [c EXCEPT !.items = [k \in f.elems |-> NilElement] @@ @],
          err |-> IF f.damaged THEN "Decode" ELSE ""]

\* What a round trip through the file starts from: the entries of the store
\* at the last call of SaveToFile, and how far the trip has come.
NoTrip == [items |-> <<>>, stage |-> "none"]

(***************************************************************************)
(* Requests, URLs and cache keys (internal/proxy/proxy.go).                *)
(***************************************************************************)
URL(scheme, host, path, query) ==
    [Scheme |-> scheme, Host |-> host, Path |-> path,
     RawQuery |-> query, Fragment |-> <<>>]

\* Query keys in lexicographic order; sort.Strings orders by this rank.
QueryKeys == <<"a", "b">>

KeyRank(k) == CHOOSE i \in 1..Len(QueryKeys) : QueryKeys[i] = k

\* u.Query() followed by Values.Encode(): the pairs grouped by key in
\* ascending key order, the values of one key in their original order.
EncodeSorted(q) ==
    LET ofKey(i) == SelectSeq(q, LAMBDA kv : kv[1] = QueryKeys[i])
        F[i \in 0..Len(QueryKeys)] ==
            IF i = 0 THEN <<>> ELSE F[i - 1] \o ofKey(i)
    IN  F[Len(QueryKeys)]

\* The text of a query: k=v joined by "&".
QueryString(q) ==
    LET F[i \in 0..Len(q)] ==
            IF i = 0 THEN <<>>
            ELSE F[i - 1] \o (IF i = 1 THEN <<>> ELSE <<"&">>)
                          \o <<q[i][1], "=", q[i][2]>>
    IN  F[Len(q)]

\* URL.EscapedPath(): a "?" inside the decoded path is written as %3F.
EscapedPath(path) ==
    [i \in 1..Len(path) |-> IF path[i] = "?" THEN "%3F" ELSE path[i]]

\* URL.String()
URLString(u) ==
    <<u.Scheme, "://">> \o u.Host \o EscapedPath(u.Path)
        \o (IF u.RawQuery = <<>> THEN <<>>
            ELSE <<"?">> \o QueryString(u.RawQuery))
        \o (IF u.Fragment = <<>> THEN <<>> ELSE <<"#">> \o u.Fragment)

\* Values that are not a valid percent-encoding.
BadEscapes == {"%zz", "%yy"}

\* u.Query(): ParseQuery skips every pair that fails to unescape, and
\* Query() discards the error.
Query(u) == SelectSeq(u.RawQuery, LAMBDA kv : kv[2] \notin BadEscapes)

\* The raw query is rewritten only when the parsed query is not empty.
getCacheKey(r) ==
    LET q == Query(r.URL)
    IN  URLString([r.URL EXCEPT !.Fragment = <<>>,
                                !.RawQuery = IF Len(q) > 0
                                             THEN EncodeSorted(q) ELSE @])

\* hex(sha256(body)): one text per body, different bodies differ.
BodyHash(body) == <<"sha256[">> \o body \o <<"]">>

getPostCacheKey(cfg, r, body) ==
    <<r.URL.Scheme, "://">> \o r.URL.Host \o r.URL.Path
        \o (IF cfg.PostCache.IncludeQueryString /\ r.URL.RawQuery # <<>>
            THEN <<"?">> \o QueryString(r.URL.RawQuery) ELSE <<>>)
        \o <<":">> \o BodyHash(body)

isErrorStatusCode(statusCode) == statusCode >= 400 /\ statusCode <= 599

shouldCacheRequest(r) == r.Method = "GET"

\* shouldCacheResponse on the response's header map h.
shouldCacheResponse(cfg, h) ==
    /\ \E t \in cfg.CacheableTypes : HasPrefix(HeaderGet(h.ContentType), t)
    /\ \/ cfg.IgnoreNoCache
       \/ /\ ~Contains(HeaderGet(h.CacheControl), <<"no-cache">>)
          /\ ~Contains(HeaderGet(h.CacheControl), <<"no-store">>)
          /\ HeaderGet(h.Pragma) # <<"no-cache">>

(***************************************************************************)
(* The environment: client requests, origin responses, configurations.     *)
(***************************************************************************)
HostA == <<"a">>
HostAB == <<"a", "b">>
Path1 == <<"/", "1">>
Path2 == <<"/", "2">>

Request(connect, method, url, body) ==
    [Connect |-> connect, Method |-> method, URL |-> url, Body |-> body]

\* Plain proxy requests carry an absolute URL; a CONNECT request carries
\* the host in URL.Host and the inner request's path in URL.Path.
Requests ==
    { Request(FALSE, "GET", URL("http", HostA, Path1, <<>>), <<>>),
      Request(FALSE, "GET", URL("https", HostA, Path1, <<>>), <<>>),
      Request(FALSE, "POST", URL("https", HostA, Path1, <<>>), <<"x">>),
      Request(FALSE, "PUT", URL("http", HostA, Path1, <<>>), <<"x">>),
      Request(TRUE, "GET", URL("", HostA, Path1, <<>>), <<>>),
      Request(TRUE, "POST", URL("", HostA, Path1, <<>>), <<"x">>) }

\* A response header with one Content-Type line and the given
\* Cache-Control lines.
Header(contentType, cacheControl) ==
    [ContentType |-> <<contentType>>, CacheControl |-> cacheControl,
     Pragma |-> <<>>, XCache |-> <<>>]

TextHTML == <<"text/html">>
TextHTMLCharset == <<"text/html", "; charset=utf-8">>
OctetStream == <<"application/octet-stream">>
NoStore == <<"no-store">>
MaxAge == <<"max-age=60">>

Outcome(err, status, header, body) ==
    [err |-> err, StatusCode |-> status, Header |-> header, Body |-> body]

\* A body one byte larger than one megabyte.
BigBody == Repeat("x", MB + 1)

\* What a round trip to the origin can produce: a response, a transport
\* error, or a failure while reading the response body.
OriginOutcomes ==
    { Outcome("", 200, Header(TextHTMLCharset, <<>>), <<"x">>),
      Outcome("", 404, Header(TextHTML, <<>>), <<"z">>),
      Outcome("", 200, Header(OctetStream, <<>>), <<"x">>),
      Outcome("transport", 0, NoHeader, <<>>),
      Outcome("body", 200, Header(TextHTML, <<>>), <<>>) }

CacheConfig(ignoreNoCache, postEnable) ==
    [DefaultTTL |-> 2, NegativeTTL |-> 1,
     IgnoreNoCache |-> ignoreNoCache,
     MaxCertCacheEntries |-> 0,
     CacheableTypes |-> {TextHTML},
     PostCache |-> [Enable |-> postEnable, IncludeQueryString |-> FALSE,
                    MaxRequestBodySizeMB |-> 1,
                    MaxResponseBodySizeMB |-> 1]]

Configs == {CacheConfig(FALSE, p) : p \in BOOLEAN}

MaxSizeMBs == {0, 1}

\* Keys and hosts the control API is asked to purge.
PurgeURLs == {getCacheKey(r) : r \in {r \in Requests : ~r.Connect}}
PurgeDomains == {HostA, HostAB}

(***************************************************************************)
(* Connections: one handler invocation each.                               *)
(***************************************************************************)
NoResp == [StatusCode |-> 0, Header |-> 0, Body |-> <<>>]

NoOut == [served |-> "none", StatusCode |-> 0, Header |-> NoHeader,
          Body |-> <<>>]

NoRequest == Request(FALSE, "", URL("", <<>>, <<>>, <<>>), <<>>)

IdleConn ==
    [pc |-> "idle", handler |-> "", req |-> NoRequest,
     keyed |-> FALSE, cacheKey |-> <<>>, resp |-> NoResp]

\* What a handler invocation that returned left on the wire: the request
\* it served and the response it wrote.
Sent(cn, got, out) ==
    [handler |-> cn.handler, req |-> cn.req, got |-> got, out |-> out]

NoSent == Sent(IdleConn, NoHeader, NoOut)

\* A header map is live while the store or a handler holds a reference.
Referenced(i, c, cn) ==
    \/ \E k \in DOMAIN c.items : c.items[k].entry.Headers = i
    \/ \E x \in Conns : cn[x].resp.Header = i

\* The address a freshly allocated header map gets.
NewHeader(h, c, cn) ==
    CHOOSE i \in HeaderIds :
        /\ ~Referenced(i, c, cn)
        /\ \A j \in HeaderIds : j < i => Referenced(j, c, cn)

Collect(h, c, cn) ==
    [i \in HeaderIds |-> IF Referenced(i, c, cn) THEN h[i] ELSE NoHeader]

\* The goroutines that call getCert, and a goroutine outside getCert.
Goroutines == 1..NumGoroutines

NoElem == [host |-> "", cert |-> 0]

\* branch: how the last call returned (hit, found, minted or error);
\* maxEntries: the limit that a call that minted read from the configuration.
IdleCall ==
    [pc |-> "idle", host |-> "", elem |-> NoElem, cert |-> 0, branch |-> "",
     maxEntries |-> 0]

\* No request has been fingerprinted.
NoFingerprints == [r |-> <<>>, key |-> <<>>]

\* The goroutines that call the shutdown closure: the signal handler and
\* the handler of POST /shutdown.
ShutdownCallers == {"signal", "api"}

\* No ReloadConfig in progress: pending tells that a call has installed
\* the TTL of cfg in the store and not yet cfg in the proxy, and count is
\* the number of calls so far.
NoReload == [pending |-> FALSE, cfg |-> CacheConfig(FALSE, FALSE), count |-> 0]

\* The sweeper goroutine that NewMemoryCache starts: at its select, no tick
\* in ticker.C, stopCleanup open, no sweep run, Shutdown not called. late
\* records that the select took a tick while stopCleanup was closed.
NewSweeper ==
    [pc |-> "select", tick |-> FALSE, stopped |-> FALSE, sweeps |-> 0,
     calls |-> 0, late |-> FALSE]

\* The last purge the control API ran: the handler invocations that had
\* missed and were waiting for the origin or about to insert when it ran,
\* the number of requests accepted until then, and what it purged (all
\* entries, or the entry of url).
NoPurge == [waiting |-> {}, nreq |-> 0, all |-> FALSE, url |-> <<>>]

\* The goroutines that call AccessLogger.Close.
Closers == {1, 2}

\* The access logger after NewAccessLogger: the entries in the buffered
\* channel (an entry is its number), the closed flag, the done channel,
\* the position of the worker (select, drain, exited), the entries
\* written, the counters, and the calls of Close (idle, wait) with the
\* number that have returned.
NewAccessLogger ==
    [entries |-> <<>>, closed |-> FALSE, done |-> FALSE, worker |-> "select",
     written |-> {}, entriesLogged |-> 0, entriesDropped |-> 0,
     accepted |-> {}, calls |-> 0,
     closer |-> [g \in Closers |-> "idle"], returned |-> 0]

\* The process after startServer: the main goroutine in ListenAndServe, the
\* proxy server listening with inflight requests being served, no shutdown
\* requested. sd is the position of each caller of the shutdown closure
\* and the seconds it has waited in p.Shutdown; saves counts the calls of
\* SaveToFile; exited names what ended the process, "" while it runs;
\* reload is the call of ReloadConfig in progress; sweeper is the expiry
\* sweeper of the store.
Process(persist, inflight) ==
    [persist |-> persist, main |-> "serving", server |-> "listening",
     sd |-> [g \in ShutdownCallers |-> [pc |-> "idle", waited |-> 0]],
     inflight |-> inflight, saves |-> 0, exited |-> "",
     reload |-> NoReload, sweeper |-> NewSweeper, purge |-> NoPurge,
     accessLog |-> NewAccessLogger]

\* Persistence disabled, no cache file.
NoPersistence ==
    file = NoFile /\ trip = NoTrip /\ proc = Process(FALSE, 0)

StartServer(cfg, maxSizeMB) ==
    /\ config = cfg
    /\ cache = NewMemoryCache(cfg.DefaultTTL, maxSizeMB)
    /\ heap = [i \in HeaderIds |-> NoHeader]
    /\ now = 0
    /\ conn = [c \in Conns |-> IdleConn]
    /\ nreq = 0
    /\ sent = NoSent
    /\ ret = NoRet
    /\ nops = 0
    /\ used = <<>>
    /\ certCache = <<>>
    /\ certLRUList = <<>>
    /\ certEvictions = 0
    /\ getCertCalls = [g \in Goroutines |-> IdleCall]
    /\ serial = 0
    /\ certUse = [applied |-> <<>>, every |-> <<>>]

Init == \E cfg \in Configs : StartServer(cfg, 1) /\ fp = NoFingerprints /\ NoPersistence

(***************************************************************************)
(* The handlers.  ServeHTTP runs a handler up to its cache lookup; a miss  *)
(* continues with RoundTrip, StoreResponse and WriteResponse.              *)
(***************************************************************************)
\* ServeHTTP's dispatch, and handleHTTP's dispatch of POST.
HandlerOf(cfg, r) ==
    IF r.Connect THEN "handleHTTPS"
    ELSE IF r.Method = "POST" /\ cfg.PostCache.Enable
         THEN "handlePostRequest"
         ELSE "handleHTTP"

\* The request a handler works on: handleHTTPS rewrites scheme and host
\* of the inner request.
HandledRequest(r) ==
    IF r.Connect
    THEN [r EXCEPT !.URL.Scheme = "https"]
    ELSE r

\* Whether the handler looks the request up in the store.
LooksUp(handler, r) ==
    IF handler = "handlePostRequest" THEN TRUE ELSE shouldCacheRequest(r)

CacheKeyOf(handler, cfg, r) ==
    IF handler = "handlePostRequest"
    THEN getPostCacheKey(cfg, r, r.Body)
    ELSE getCacheKey(r)

\* http.MaxBytesReader: reading fails once the body exceeds the limit.
RequestBodyTooLarge(cfg, body) ==
    Len(body) > cfg.PostCache.MaxRequestBodySizeMB * MB

ErrorOut(status) ==
    [served |-> "error", StatusCode |-> status, Header |-> NoHeader,
     Body |-> <<>>]

\* The response a handler writes on a cache hit, from the entry's
\* header map h: handleHTTP and handlePostRequest set X-Cache on the
\* writer and add the entry's headers to it.
HitOut(entry, h) ==
    [served |-> "store", StatusCode |-> entry.StatusCode,
     Header |-> [h EXCEPT !.XCache = <<"HIT">> \o @],
     Body |-> entry.Body]

\* handleHTTPS sets X-Cache on the entry's own header map.
HitOutHTTPS(entry, h) ==
    [served |-> "store", StatusCode |-> entry.StatusCode,
     Header |-> [h EXCEPT !.XCache = <<"HIT">>],
     Body |-> entry.Body]

ServeHTTP(c, r) ==
    /\ conn[c].pc = "idle"
    /\ nreq < MaxRequests
    /\ nreq' = nreq + 1
    /\ LET handler == HandlerOf(config, r)
           req == HandledRequest(r)
           start == [IdleConn EXCEPT !.handler = handler, !.req = req]
       IN  IF handler = "handlePostRequest"
              /\ RequestBodyTooLarge(config, req.Body)
           THEN /\ sent' = Sent(start, NoHeader, ErrorOut(413))
                /\ UNCHANGED <<cache, heap, conn>>
           ELSE IF ~LooksUp(handler, req)
           THEN /\ conn' = [conn EXCEPT ![c] =
                                [start EXCEPT !.pc = "forward"]]
                /\ UNCHANGED <<cache, heap, sent>>
           ELSE LET key == CacheKeyOf(handler, config, req)
                    g == Get(cache, key, now)
                    keyed == [start EXCEPT !.keyed = TRUE, !.cacheKey = key]
                    hid == g.entry.Headers
                    heap1 == IF g.ok /\ handler = "handleHTTPS"
                             THEN [heap EXCEPT ![hid].XCache = <<"HIT">>]
                             ELSE heap
                IN  /\ cache' = g.c
                    /\ IF g.ok
                       THEN /\ sent' = Sent(keyed, heap[hid],
                                   IF handler = "handleHTTPS"
                                   THEN HitOutHTTPS(g.entry, heap[hid])
                                   ELSE HitOut(g.entry, heap[hid]))
                            /\ UNCHANGED conn
                       ELSE /\ conn' = [conn EXCEPT ![c] =
                                           [keyed EXCEPT !.pc = "forward"]]
                            /\ UNCHANGED sent
                    /\ heap' = Collect(heap1, cache', conn')
    /\ UNCHANGED <<config, now, ret, nops, used, fp, certVars, osVars>>

\* The inner request of a CONNECT cannot be read (handshake failure,
\* malformed request): the handler returns without a response.
ConnectAborted(c) ==
    /\ conn[c].pc = "idle"
    /\ nreq < MaxRequests
    /\ nreq' = nreq + 1
    /\ sent' = Sent([IdleConn EXCEPT !.handler = "handleHTTPS"],
                    NoHeader, NoOut)
    /\ UNCHANGED <<cache, heap, config, now, conn, ret, nops, used, fp, certVars, osVars>>

FailureOutBadGateway(handler, err) == ErrorOut(502)

\* What a handler writes when the round trip or the reading of the
\* response body fails.
FailureOut(handler, err) ==
    IF handler # "handleHTTPS" THEN ErrorOut(503)
    ELSE IF err = "transport" THEN ErrorOut(502)
    ELSE NoOut

\* transport.RoundTrip and io.ReadAll of the response body.
RoundTrip(c, o) ==
    /\ conn[c].pc = "forward"
    /\ IF o.err = ""
       THEN /\ heap' = [heap EXCEPT ![NewHeader(heap, cache, conn)] = o.Header]
            /\ conn' = [conn EXCEPT ![c].pc = "store",
                                    ![c].resp = [StatusCode |-> o.StatusCode,
                                                 Header |-> NewHeader(heap, cache, conn),
                                                 Body |-> o.Body]]
            /\ UNCHANGED sent
       ELSE /\ conn' = [conn EXCEPT ![c] = IdleConn]
            /\ sent' = Sent(conn[c], NoHeader,
                            FailureOut(conn[c].handler, o.err))
            /\ UNCHANGED heap
    /\ UNCHANGED <<cache, config, now, nreq, ret, nops, used, fp, certVars, osVars>>

\* The TTL the handlers pass: negative_ttl for 4xx and 5xx.
TTLForDefault(cfg, c, statusCode) == c.defaultTTL
TTLFor(cfg, c, statusCode) ==
    IF isErrorStatusCode(statusCode) THEN cfg.NegativeTTL ELSE c.defaultTTL

StoresAnySize(cn, cfg, h) ==
    IF cn.handler = "handlePostRequest"
    THEN shouldCacheResponse(cfg, h)
    ELSE shouldCacheRequest(cn.req) /\ shouldCacheResponse(cfg, h)

\* Whether the handler inserts the response it fetched.
Stores(cn, cfg, h) ==
    IF cn.handler = "handlePostRequest"
    THEN /\ ~(Len(cn.resp.Body) > cfg.PostCache.MaxResponseBodySizeMB * MB)
         /\ shouldCacheResponse(cfg, h)
    ELSE shouldCacheRequest(cn.req) /\ shouldCacheResponse(cfg, h)

StoreResponse(c) ==
    /\ conn[c].pc = "store"
    /\ LET cn == conn[c]
           entry == [StatusCode |-> cn.resp.StatusCode,
                     Headers |-> cn.resp.Header,
                     Body |-> cn.resp.Body, Expiry |-> 0]
       IN  /\ cache' = IF Stores(cn, config, heap[cn.resp.Header])
                       THEN SetWithTTL(cache, cn.cacheKey, entry,
                                TTLFor(config, cache, entry.StatusCode), now)
                       ELSE cache
           /\ conn' = [conn EXCEPT ![c].pc = "write"]
           /\ heap' = Collect(heap, cache', conn')
    /\ UNCHANGED <<config, now, nreq, sent, ret, nops, used, fp, certVars, osVars>>

\* Whether the handler marks the response it forwards with X-Cache: MISS.
MarksMiss(cn) ==
    IF cn.handler = "handlePostRequest" THEN TRUE
    ELSE shouldCacheRequest(cn.req)

WriteResponse(c) ==
    /\ conn[c].pc = "write"
    /\ LET cn == conn[c]
           hid == cn.resp.Header
           hdr == IF MarksMiss(cn)
                  THEN [heap[hid] EXCEPT !.XCache = <<"MISS">>]
                  ELSE heap[hid]
           heap1 == IF cn.handler = "handleHTTPS"
                    THEN [heap EXCEPT ![hid] = hdr] ELSE heap
       IN  /\ conn' = [conn EXCEPT ![c] = IdleConn]
           /\ sent' = Sent(cn, NoHeader, [served |-> "origin",
                                StatusCode |-> cn.resp.StatusCode,
                                Header |-> hdr,
                                Body |-> cn.resp.Body])
           /\ heap' = Collect(heap1, cache, conn')
    /\ UNCHANGED <<cache, config, now, nreq, ret, nops, used, fp, certVars, osVars>>

(***************************************************************************)
(* The control API, the expiry sweeper and the clock.                      *)
(***************************************************************************)
handlePurgeAll ==
    /\ cache' = PurgeAll(cache).c
    /\ heap' = Collect(heap, cache', conn)
    /\ UNCHANGED <<config, now, conn, nreq, sent, ret, nops, used, fp, certVars, osVars>>

handlePurgeURL(rawURL) ==
    /\ cache' = PurgeByURL(cache, rawURL).c
    /\ heap' = Collect(heap, cache', conn)
    /\ UNCHANGED <<config, now, conn, nreq, sent, ret, nops, used, fp, certVars, osVars>>

handlePurgeDomain(domain) ==
    /\ cache' = PurgeByDomain(cache, domain).c
    /\ heap' = Collect(heap, cache', conn)
    /\ UNCHANGED <<config, now, conn, nreq, sent, ret, nops, used, fp, certVars, osVars>>

cleanupExpired ==
    /\ cache' = removeExpiredEntries(cache, now)
    /\ heap' = Collect(heap, cache', conn)
    /\ UNCHANGED <<config, now, conn, nreq, sent, ret, nops, used, fp, certVars, osVars>>

Tick ==
    /\ now < MaxTime
    /\ now' = now + 1
    /\ UNCHANGED <<cache, heap, config, conn, nreq, sent, ret, nops, used, fp, certVars, osVars>>

\* The steps of the proxy when the clients send the requests reqs and
\* the origin answers with the outcomes outs.
ProxyNext(reqs, outs) ==
    \/ \E c \in Conns, r \in reqs : ServeHTTP(c, r)
    \/ \E c \in Conns : ConnectAborted(c)
    \/ \E c \in Conns, o \in outs : RoundTrip(c, o)
    \/ \E c \in Conns : StoreResponse(c)
    \/ \E c \in Conns : WriteResponse(c)
    \/ handlePurgeAll
    \/ \E u \in PurgeURLs : handlePurgeURL(u)
    \/ \E d \in PurgeDomains : handlePurgeDomain(d)
    \/ cleanupExpired
    \/ Tick

Next == ProxyNext(Requests, OriginOutcomes)

Spec == Init /\ [][Next]_vars

(***************************************************************************)
(* The proxy serving GET requests from an origin whose responses differ in *)
(* content type and cache directives, with and without ignore_no_cache.    *)
(***************************************************************************)
GateRequests ==
    { Request(FALSE, "GET", URL("http", HostA, Path1, <<>>), <<>>),
      Request(TRUE, "GET", URL("", HostA, Path1, <<>>), <<>>) }

GateOutcomes ==
    { Outcome("", 200, Header(TextHTMLCharset, <<>>), <<"x">>),
      Outcome("", 404, Header(TextHTML, <<>>), <<"z">>),
      Outcome("", 200, Header(OctetStream, <<>>), <<"x">>),
      Outcome("", 200, Header(TextHTML, <<NoStore>>), <<"x">>),
      Outcome("", 200, Header(TextHTML, <<MaxAge, NoStore>>), <<"x">>),
      Outcome("transport", 0, NoHeader, <<>>),
      Outcome("body", 200, Header(TextHTML, <<>>), <<>>) }

GateInit ==
    \E i \in BOOLEAN :
        StartServer(CacheConfig(i, FALSE), 1) /\ fp = NoFingerprints /\ NoPersistence

GateNext == ProxyNext(GateRequests, GateOutcomes)

SpecGate == GateInit /\ [][GateNext]_vars

(***************************************************************************)
(* Purges by the control API while handlers are waiting for the origin.    *)
(***************************************************************************)
PurgeRaceRequests ==
    { Request(FALSE, "GET", URL("http", HostA, Path1, <<>>), <<>>),
      Request(TRUE, "GET", URL("", HostA, Path1, <<>>), <<>>) }

PurgeRaceOutcomes ==
    { Outcome("", 200, Header(TextHTML, <<>>), <<"x">>),
      Outcome("", 200, Header(TextHTML, <<>>), <<"y">>),
      Outcome("transport", 0, NoHeader, <<>>) }

PurgeRaceURLs == { URLString(URL("http", HostA, Path1, <<>>)),
                   URLString(URL("https", HostA, Path1, <<>>)) }

\* The handler invocations between their cache miss and their insert.
WaitingForOrigin ==
    { c \in Conns : conn[c].keyed /\ conn[c].pc \in {"forward", "store"} }

\* POST /purge/all.
ControlPurgeAll ==
    /\ cache' = PurgeAll(cache).c
    /\ heap' = Collect(heap, cache', conn)
    /\ proc' = [proc EXCEPT !.purge =
                    [waiting |-> WaitingForOrigin, nreq |-> nreq,
                     all |-> TRUE, url |-> <<>>]]
    /\ UNCHANGED <<config, now, conn, nreq, sent, ret, nops, used, fp,
                   certVars, file, trip>>

\* POST /purge/url.
ControlPurgeURL(rawURL) ==
    /\ cache' = PurgeByURL(cache, rawURL).c
    /\ heap' = Collect(heap, cache', conn)
    /\ proc' = [proc EXCEPT !.purge =
                    [waiting |-> WaitingForOrigin, nreq |-> nreq,
                     all |-> FALSE, url |-> rawURL]]
    /\ UNCHANGED <<config, now, conn, nreq, sent, ret, nops, used, fp,
                   certVars, file, trip>>

PurgeRaceNext ==
    \/ \E c \in Conns, r \in PurgeRaceRequests : ServeHTTP(c, r)
    \/ \E c \in Conns : ConnectAborted(c)
    \/ \E c \in Conns, o \in PurgeRaceOutcomes : RoundTrip(c, o)
    \/ \E c \in Conns : StoreResponse(c)
    \/ \E c \in Conns : WriteResponse(c)
    \/ ControlPurgeAll
    \/ \E u \in PurgeRaceURLs : ControlPurgeURL(u)

PurgeRaceInit ==
    StartServer(CacheConfig(FALSE, FALSE), 1) /\ fp = NoFingerprints
        /\ NoPersistence

SpecPurgeRace == PurgeRaceInit /\ [][PurgeRaceNext]_vars

(***************************************************************************)
(* The access logger (logging: Log, Close, worker): handlers call Log,     *)
(* two goroutines call Close, the worker writes.                           *)
(***************************************************************************)
BufferSize == 2
MaxLogs == 3
MaxCloses == 3

AccessLoggerUnchanged == UNCHANGED <<serverVars, fp, certVars, file, trip>>

\* Log: the non-blocking send, and the counter of its branch.
Log ==
    LET al == proc.accessLog
        entry == al.calls + 1
    IN  /\ al.calls < MaxLogs
        /\ proc' = [proc EXCEPT !.accessLog =
               IF Len(al.entries) < BufferSize
               THEN [al EXCEPT !.calls = entry,
                               !.entries = Append(@, entry),
                               !.accepted = @ \cup {entry},
                               !.entriesLogged = @ + 1]
               ELSE [al EXCEPT !.calls = entry,
                               !.entriesDropped = @ + 1]]
        /\ AccessLoggerUnchanged

\* The worker receives an entry and writes it: in its select, or in the
\* loop that drains the channel after done.
WorkerWrites ==
    LET al == proc.accessLog
    IN  /\ al.worker \in {"select", "drain"}
        /\ al.entries # <<>>
        /\ proc' = [proc EXCEPT !.accessLog.entries = Tail(@),
                                !.accessLog.written = @ \cup {Head(al.entries)}]
        /\ AccessLoggerUnchanged

\* The worker's select takes case <-al.done.
WorkerSeesDone ==
    /\ proc.accessLog.worker = "select"
    /\ proc.accessLog.done
    /\ proc' = [proc EXCEPT !.accessLog.worker = "drain"]
    /\ AccessLoggerUnchanged

\* The draining loop finds the channel empty: the worker returns.
WorkerReturns ==
    /\ proc.accessLog.worker = "drain"
    /\ proc.accessLog.entries = <<>>
    /\ proc' = [proc EXCEPT !.accessLog.worker = "exited"]
    /\ AccessLoggerUnchanged

\* Close up to wg.Wait(): a call that finds the logger closed returns nil.
CloseBegins(g) ==
    LET al == proc.accessLog
    IN  /\ al.closer[g] = "idle"
        /\ al.returned + Cardinality({h \in Closers : al.closer[h] = "wait"})
               < MaxCloses
        /\ proc' = [proc EXCEPT !.accessLog =
               IF al.closed
               THEN [al EXCEPT !.returned = @ + 1]
               ELSE [al EXCEPT !.closed = TRUE, !.done = TRUE,
                               !.closer[g] = "wait"]]
        /\ AccessLoggerUnchanged

\* wg.Wait() returns once the worker has returned; Close closes the file
\* and returns.
CloseReturns(g) ==
    /\ proc.accessLog.closer[g] = "wait"
    /\ proc.accessLog.worker = "exited"
    /\ proc' = [proc EXCEPT !.accessLog.closer[g] = "idle",
                            !.accessLog.returned = @ + 1]
    /\ AccessLoggerUnchanged

AccessLoggerNext ==
    \/ Log
    \/ WorkerWrites
    \/ WorkerSeesDone
    \/ WorkerReturns
    \/ \E g \in Closers : CloseBegins(g)
    \/ \E g \in Closers : CloseReturns(g)

AccessLoggerInit ==
    StartServer(CacheConfig(FALSE, FALSE), 1) /\ fp = NoFingerprints
        /\ NoPersistence

\* The scheduler runs the worker and a Close that can go on; a select
\* whose case done is ready again and again takes it.
SpecAccessLogger ==
    /\ AccessLoggerInit
    /\ [][AccessLoggerNext]_vars
    /\ WF_vars(WorkerWrites)
    /\ SF_vars(WorkerSeesDone)
    /\ WF_vars(WorkerReturns)
    /\ \A g \in Closers : WF_vars(CloseReturns(g))

(***************************************************************************)
(* POST caching enabled: POST requests with small and with oversized       *)
(* bodies, and origin responses with small and with oversized bodies.  The *)
(* store is larger than the limits on POST bodies.                         *)
(***************************************************************************)
PostRequests ==
    { Request(FALSE, "POST", URL("http", HostA, Path1, <<>>), <<"x">>),
      Request(FALSE, "POST", URL("http", HostA, Path1, <<>>), BigBody),
      Request(TRUE, "POST", URL("", HostA, Path1, <<>>), BigBody) }

PostOutcomes ==
    { Outcome("", 200, Header(TextHTML, <<>>), <<"x">>),
      Outcome("", 200, Header(TextHTML, <<>>), BigBody),
      Outcome("transport", 0, NoHeader, <<>>) }

PostInit == StartServer(CacheConfig(FALSE, TRUE), 2) /\ fp = NoFingerprints /\ NoPersistence

PostNext == ProxyNext(PostRequests, PostOutcomes)

SpecPost == PostInit /\ [][PostNext]_vars

(***************************************************************************)
(* The cache keys as functions of the request: two requests arrive and     *)
(* the handlers compute their keys.                                        *)
(***************************************************************************)
Query1(k, v) == << <<k, v>> >>
Query2(k1, v1, k2, v2) == << <<k1, v1>>, <<k2, v2>> >>

\* The URLs of the GET requests: one base URL, and URLs that differ from
\* it in one component.
KeyQueries ==
    { <<>>, Query1("a", "1"),
      Query2("a", "1", "b", "2"), Query2("b", "2", "a", "1"),
      Query2("a", "1", "b", "3"),
      Query2("a", "1", "a", "2"), Query2("a", "2", "a", "1"),
      Query2("a", "1", "b", "%zz"), Query2("a", "1", "b", "%yy"),
      Query1("b", "%zz") }

PathWithQuestionMark == Path1 \o <<"?", "a", "=", "1">>

KeyURLs ==
    { URL("http", HostA, Path1, q) : q \in KeyQueries }
    \cup { URL("https", HostA, Path1, <<>>),
           URL("http", HostAB, Path1, <<>>),
           URL("http", HostA \o <<":8080">>, Path1, <<>>),
           URL("http", HostA, Path2, <<>>),
           URL("http", HostA, PathWithQuestionMark, <<>>),
           [URL("http", HostA, Path1, <<>>) EXCEPT !.Fragment = <<"f">>],
           [URL("http", HostA, Path1, Query1("a", "1"))
                EXCEPT !.Fragment = <<"f">>] }

PostURLs ==
    { URL("http", HostA, Path1, q) :
          q \in {<<>>, Query1("a", "1"), Query1("a", "2"),
                 Query2("a", "1", "b", "2"), Query2("b", "2", "a", "1")} }
    \cup { URL("https", HostA, Path1, <<>>),
           URL("http", HostAB, Path1, <<>>),
           URL("http", HostA, Path2, <<>>),
           URL("http", HostA, PathWithQuestionMark, <<>>) }

PostBodies == { <<"x">>, <<"y">> }

KeyRequests ==
    { Request(FALSE, "GET", u, <<>>) : u \in KeyURLs }
    \cup { Request(FALSE, "POST", u, b) : u \in PostURLs, b \in PostBodies }

KeyConfigs ==
    { [CacheConfig(FALSE, TRUE) EXCEPT !.PostCache.IncludeQueryString = i] :
          i \in BOOLEAN }

\* handleHTTP computes the key of each of the two GET requests.
KeyOfGet ==
    /\ fp.r # <<>> /\ fp.key = <<>>
    /\ \A i \in 1..2 : fp.r[i].Method = "GET"
    /\ fp' = [fp EXCEPT !.key = [i \in 1..2 |-> getCacheKey(fp.r[i])]]
    /\ UNCHANGED <<serverVars, certVars, osVars>>

\* handlePostRequest computes the key of each of the two POST requests.
KeyOfPost ==
    /\ fp.r # <<>> /\ fp.key = <<>>
    /\ \A i \in 1..2 : fp.r[i].Method = "POST"
    /\ fp' = [fp EXCEPT !.key =
                 [i \in 1..2 |->
                     getPostCacheKey(config, fp.r[i], fp.r[i].Body)]]
    /\ UNCHANGED <<serverVars, certVars, osVars>>

KeyInit ==
    \E cfg \in KeyConfigs, r1, r2 \in KeyRequests :
        /\ r1.Method = r2.Method
        /\ StartServer(cfg, 1)
        /\ fp = [r |-> <<r1, r2>>, key |-> <<>>]
        /\ NoPersistence

KeyNext == KeyOfGet \/ KeyOfPost

SpecKey == KeyInit /\ [][KeyNext]_vars

(***************************************************************************)
(* The keys of a GET request and of a POST request for the same store:     *)
(* handleHTTP computes the one, handlePostRequest the other.               *)
(***************************************************************************)
\* A path that ends in ":" and the hash of a body.  URL.String() writes the
\* ":" and the hexadecimal digits of a path as they are.
PathWithHash(body) == Path1 \o <<":">> \o BodyHash(body)

MethodGetRequests ==
    { Request(FALSE, "GET", u, <<>>) :
          u \in KeyURLs \cup { URL("http", HostA, PathWithHash(b), <<>>) :
                                   b \in PostBodies } }

MethodPostRequests ==
    { Request(FALSE, "POST", u, b) : u \in PostURLs, b \in PostBodies }

\* The key of the GET request and the key of the POST request.
KeyOfGetAndPost ==
    /\ fp.r # <<>> /\ fp.key = <<>>
    /\ fp.r[1].Method = "GET" /\ fp.r[2].Method = "POST"
    /\ fp' = [fp EXCEPT !.key =
                 <<getCacheKey(fp.r[1]),
                   getPostCacheKey(config, fp.r[2], fp.r[2].Body)>>]
    /\ UNCHANGED <<serverVars, certVars, osVars>>

MethodsInit ==
    \E cfg \in KeyConfigs, r1 \in MethodGetRequests,
       r2 \in MethodPostRequests :
        /\ StartServer(cfg, 1)
        /\ fp = [r |-> <<r1, r2>>, key |-> <<>>]
        /\ NoPersistence

MethodsNext == KeyOfGetAndPost

SpecKeyMethods == MethodsInit /\ [][MethodsNext]_vars

(***************************************************************************)
(* The certificate store (getCert, evictOldestCert).  A list element is    *)
(* its certNode: the host and the leaf, a leaf being its serial number.    *)
(* The section under the read lock is one step, each section under the     *)
(* write lock is one step.                                                 *)
(***************************************************************************)
CertHosts == {"a", "b", "c"}

\* Values of max_cert_cache_entries in the configuration file.
CertLimits == {0, 1, 2}

CertStore == [certCache |-> certCache, certLRUList |-> certLRUList,
              certEvictions |-> certEvictions]

evictOldestCertFront(st) ==
    IF st.certLRUList = <<>> THEN st
    ELSE LET elem == st.certLRUList[1]
         IN  [certCache |-> MapDelete(st.certCache, elem.host),
              certLRUList |-> ListRemove(st.certLRUList, elem),
              certEvictions |-> st.certEvictions + 1]

evictOldestCert(st) ==
    IF st.certLRUList = <<>> THEN st
    ELSE LET elem == st.certLRUList[Len(st.certLRUList)]
         IN  [certCache |-> MapDelete(st.certCache, elem.host),
              certLRUList |-> ListRemove(st.certLRUList, elem),
              certEvictions |-> st.certEvictions + 1]

\* The recency of hosts after a use of host: most recent first, hosts
\* that left the store forgotten.
UseHost(order, host, stored) ==
    SelectSeq(<<host>> \o SelectSeq(order, LAMBDA h : h # host),
              LAMBDA h : h \in stored)

\* getCert up to the release of the read lock.
GetCertLookup(g, host) ==
    /\ getCertCalls[g].pc = "idle"
    /\ getCertCalls' = [getCertCalls EXCEPT ![g] =
           IF host \in DOMAIN certCache
           THEN [IdleCall EXCEPT !.pc = "hit", !.host = host,
                                 !.elem = certCache[host]]
           ELSE [IdleCall EXCEPT !.pc = "miss", !.host = host]]
    /\ UNCHANGED <<serverVars, fp, osVars, certCache, certLRUList,
                   certEvictions, serial, certUse>>

\* getCert's hit path: the promotion under the write lock, and the return.
GetCertPromote(g) ==
    LET call == getCertCalls[g]
        stillExists == call.host \in DOMAIN certCache
        applies == stillExists /\ certCache[call.host] = call.elem
    IN  /\ call.pc = "hit"
        /\ certLRUList' = IF applies
                          THEN ListMoveToFront(certLRUList, call.elem)
                          ELSE certLRUList
        /\ getCertCalls' = [getCertCalls EXCEPT ![g] =
               [IdleCall EXCEPT !.host = call.host, !.branch = "hit",
                                !.cert = call.elem.cert]]
        /\ certUse' =
               [applied |-> IF applies
                            THEN UseHost(certUse.applied, call.host,
                                         DOMAIN certCache)
                            ELSE certUse.applied,
                every |-> UseHost(certUse.every, call.host,
                                  DOMAIN certCache)]
        /\ UNCHANGED <<serverVars, fp, osVars, certCache, certEvictions, serial>>

\* getCert's miss path mints on every call, without the second lookup.
getCertMissNoRecheck(st, host) == FALSE

\* The second lookup of getCert's miss path, under the write lock.
getCertMissFinds(st, host) == host \in DOMAIN st.certCache

\* getCert's miss path under the write lock: the second lookup, the
\* generation of the leaf (ok: it succeeded), the eviction, the insertion.
GetCertMiss(g, ok) ==
    LET call == getCertCalls[g]
        maxEntries == config.MaxCertCacheEntries
        full == maxEntries > 0 /\ Cardinality(DOMAIN certCache) >= maxEntries
        st == IF full THEN evictOldestCert(CertStore) ELSE CertStore
        elem == [host |-> call.host, cert |-> serial + 1]
        stored == (DOMAIN st.certCache) \cup {call.host}
    IN  /\ call.pc = "miss"
        /\ IF getCertMissFinds(CertStore, call.host)
           THEN /\ ok
                /\ certLRUList' =
                       ListMoveToFront(certLRUList, certCache[call.host])
                /\ getCertCalls' = [getCertCalls EXCEPT ![g] =
                       [IdleCall EXCEPT !.host = call.host,
                                        !.branch = "found",
                                        !.cert = certCache[call.host].cert]]
                /\ certUse' =
                       [applied |-> UseHost(certUse.applied, call.host,
                                            DOMAIN certCache),
                        every |-> UseHost(certUse.every, call.host,
                                          DOMAIN certCache)]
                /\ UNCHANGED <<certCache, certEvictions, serial>>
           ELSE IF ~ok
           THEN /\ getCertCalls' = [getCertCalls EXCEPT ![g] =
                       [IdleCall EXCEPT !.host = call.host,
                                        !.branch = "error"]]
                /\ UNCHANGED <<certCache, certLRUList, certEvictions,
                               serial, certUse>>
           ELSE /\ serial < MaxCerts
                /\ serial' = serial + 1
                /\ certLRUList' = <<elem>> \o st.certLRUList
                /\ certCache' =
                       [h \in stored |->
                           IF h = call.host THEN elem ELSE st.certCache[h]]
                /\ certEvictions' = st.certEvictions
                /\ getCertCalls' = [getCertCalls EXCEPT ![g] =
                       [IdleCall EXCEPT !.host = call.host,
                                        !.branch = "minted",
                                        !.cert = elem.cert,
                                        !.maxEntries = maxEntries]]
                /\ certUse' =
                       [applied |-> UseHost(certUse.applied, call.host,
                                            stored),
                        every |-> UseHost(certUse.every, call.host, stored)]
        /\ UNCHANGED <<serverVars, fp, osVars>>

\* ReloadConfig: SetConfig installs a configuration read from the file.
SetConfig(maxEntries) ==
    /\ config' = [config EXCEPT !.MaxCertCacheEntries = maxEntries]
    /\ UNCHANGED <<cache, now, ret, nops, used, heap, conn, nreq, sent,
                   fp, certVars, osVars>>

CertInit ==
    \E m \in CertLimits :
        /\ StartServer([CacheConfig(FALSE, FALSE)
                            EXCEPT !.MaxCertCacheEntries = m], 1)
        /\ fp = NoFingerprints /\ NoPersistence

CertNext ==
    \/ \E g \in Goroutines, host \in CertHosts : GetCertLookup(g, host)
    \/ \E g \in Goroutines : GetCertPromote(g)
    \/ \E g \in Goroutines, ok \in BOOLEAN : GetCertMiss(g, ok)
    \/ \E m \in CertLimits : SetConfig(m)

SpecCert == CertInit /\ [][CertNext]_vars

(***************************************************************************)
(* The store driven through its API, as the package's callers and tests    *)
(* drive it: any sequence of calls, each atomic under c.mu.                *)
(***************************************************************************)
StoreKeys ==
    { URLString(URL("http", HostA, Path1, <<>>)),
      URLString(URL("http", HostAB, Path1, <<>>)),
      URLString(URL("http", <<"b">>, Path2, <<>>)) }

StoreBodies == { <<"x">>, <<"y", "y">>, BigBody }

StoreTTLs == {1}

StoreEntry(body) ==
    [StatusCode |-> 200, Headers |-> 0, Body |-> body, Expiry |-> 0]

proxyVars == <<heap, config, conn, nreq, sent>>

\* The keys in the store by recency of use, most recent first: a key is
\* used by the insert that stores it and by every lookup that finds it.
Touch(order, key, c) ==
    SelectSeq(<<key>> \o SelectSeq(order, LAMBDA k : k # key),
              LAMBDA k : k \in DOMAIN c.items)

Forget(order, c) == SelectSeq(order, LAMBDA k : k \in DOMAIN c.items)

CallGet(key) ==
    /\ nops < MaxOps
    /\ nops' = nops + 1
    /\ LET g == Get(cache, key, now)
       IN  /\ cache' = g.c
           /\ ret' = Ret("Get", key, <<>>, g.branch, g.entry, g.ok, 0)
           /\ used' = IF g.ok THEN Touch(used, key, g.c)
                      ELSE Forget(used, g.c)
    /\ UNCHANGED <<now, proxyVars, fp, certVars, osVars>>

CallSet(key, body) ==
    /\ nops < MaxOps
    /\ nops' = nops + 1
    /\ cache' = Set(cache, key, StoreEntry(body), now)
    /\ ret' = Ret("Set", key, body,
                  IF TooLarge(cache, StoreEntry(body))
                  THEN "rejected" ELSE "stored", NoEntry, FALSE, 0)
    /\ used' = IF TooLarge(cache, StoreEntry(body)) THEN used
               ELSE Touch(used, key, cache')
    /\ UNCHANGED <<now, proxyVars, fp, certVars, osVars>>

CallSetWithTTL(key, body, ttl) ==
    /\ nops < MaxOps
    /\ nops' = nops + 1
    /\ cache' = SetWithTTL(cache, key, StoreEntry(body), ttl, now)
    /\ ret' = Ret("SetWithTTL", key, body,
                  IF TooLarge(cache, StoreEntry(body))
                  THEN "rejected" ELSE "stored", NoEntry, FALSE, 0)
    /\ used' = IF TooLarge(cache, StoreEntry(body)) THEN used
               ELSE Touch(used, key, cache')
    /\ UNCHANGED <<now, proxyVars, fp, certVars, osVars>>

CallPurgeAll ==
    /\ nops < MaxOps
    /\ nops' = nops + 1
    /\ cache' = PurgeAll(cache).c
    /\ ret' = Ret("PurgeAll", <<>>, <<>>, "", NoEntry, FALSE, PurgeAll(cache).count)
    /\ used' = Forget(used, cache')
    /\ UNCHANGED <<now, proxyVars, fp, certVars, osVars>>

CallPurgeByURL(rawURL) ==
    /\ nops < MaxOps
    /\ nops' = nops + 1
    /\ cache' = PurgeByURL(cache, rawURL).c
    /\ ret' = Ret("PurgeByURL", rawURL, <<>>, "", NoEntry,
                  PurgeByURL(cache, rawURL).found, 0)
    /\ used' = Forget(used, cache')
    /\ UNCHANGED <<now, proxyVars, fp, certVars, osVars>>

CallPurgeByDomain(domain) ==
    /\ nops < MaxOps
    /\ nops' = nops + 1
    /\ cache' = PurgeByDomain(cache, domain).c
    /\ ret' = Ret("PurgeByDomain", domain, <<>>, "", NoEntry, FALSE,
                  PurgeByDomain(cache, domain).count)
    /\ used' = Forget(used, cache')
    /\ UNCHANGED <<now, proxyVars, fp, certVars, osVars>>

\* One tick of the sweeper's ticker.
SweepTick ==
    /\ nops < MaxOps
    /\ nops' = nops + 1
    /\ cache' = removeExpiredEntries(cache, now)
    /\ ret' = Ret("removeExpiredEntries", <<>>, <<>>, "", NoEntry, FALSE, 0)
    /\ used' = Forget(used, cache')
    /\ UNCHANGED <<now, proxyVars, fp, certVars, osVars>>

StoreTick ==
    /\ now < MaxTime
    /\ now' = now + 1
    /\ UNCHANGED <<cache, ret, nops, used, proxyVars, fp, certVars, osVars>>

StoreNext ==
    \/ \E k \in StoreKeys : CallGet(k)
    \/ \E k \in StoreKeys, b \in StoreBodies : CallSet(k, b)
    \/ \E k \in StoreKeys, b \in StoreBodies, ttl \in StoreTTLs :
           CallSetWithTTL(k, b, ttl)
    \/ CallPurgeAll
    \/ \E k \in StoreKeys : CallPurgeByURL(k)
    \/ \E d \in PurgeDomains : CallPurgeByDomain(d)
    \/ SweepTick
    \/ StoreTick

StoreInit ==
    \E m \in MaxSizeMBs :
        StartServer(CacheConfig(FALSE, FALSE), m) /\ fp = NoFingerprints /\ NoPersistence

SpecStore == StoreInit /\ [][StoreNext]_vars

(***************************************************************************)
(* The store and its cache file, driven through the API of the package:    *)
(* inserts, lookups, sweeps, SaveToFile, LoadFromFile, and a new store as  *)
(* a restart of the process makes one.                                     *)
(***************************************************************************)
MaxPersistOps == 5

PersistKeys ==
    { URLString(URL("http", HostA, Path1, <<>>)),
      URLString(URL("http", <<"b">>, Path2, <<>>)) }

PersistBodies == { <<"x">> }

\* The cache files a process can find at its start: none, or a stream of a
\* map of fingerprints to responses, whole or damaged.
PersistFiles ==
    {NoFile} \cup {GobFile(K, d) : K \in SUBSET PersistKeys, d \in BOOLEAN}

\* A call that panics on the type assertion of a decoded element, before it
\* has changed the store; the deferred Unlock releases c.mu.
PanicIn(fn, key, body) ==
    /\ ret' = Ret(fn, key, body, "panic", NoEntry, FALSE, 0)
    /\ UNCHANGED <<cache, used, trip>>

PersistGet(key) ==
    /\ nops < MaxPersistOps
    /\ nops' = nops + 1
    /\ IF Panics(cache, key)
       THEN PanicIn("Get", key, <<>>)
       ELSE LET g == Get(cache, key, now)
            IN  /\ cache' = g.c
                /\ ret' = Ret("Get", key, <<>>, g.branch, g.entry, g.ok, 0)
                /\ used' = IF g.ok THEN Touch(used, key, g.c)
                           ELSE Forget(used, g.c)
                /\ UNCHANGED trip
    /\ UNCHANGED <<now, proxyVars, fp, certVars, file, proc>>

PersistSet(key, body) ==
    /\ nops < MaxPersistOps
    /\ nops' = nops + 1
    /\ IF ~TooLarge(cache, StoreEntry(body)) /\ Panics(cache, key)
       THEN PanicIn("Set", key, body)
       ELSE /\ cache' = Set(cache, key, StoreEntry(body), now)
            /\ ret' = Ret("Set", key, body,
                          IF TooLarge(cache, StoreEntry(body))
                          THEN "rejected" ELSE "stored", NoEntry, FALSE, 0)
            /\ used' = IF TooLarge(cache, StoreEntry(body)) THEN used
                       ELSE Touch(used, key, cache')
            /\ trip' = NoTrip
    /\ UNCHANGED <<now, proxyVars, fp, certVars, file, proc>>

\* One tick of the sweeper's ticker: the loop over c.items asserts the type
\* of every element.
PersistSweep ==
    /\ nops < MaxPersistOps
    /\ nops' = nops + 1
    /\ IF \E k \in DOMAIN cache.items : Panics(cache, k)
       THEN PanicIn("removeExpiredEntries", <<>>, <<>>)
       ELSE /\ cache' = removeExpiredEntries(cache, now)
            /\ ret' = Ret("removeExpiredEntries", <<>>, <<>>, "", NoEntry,
                          FALSE, 0)
            /\ used' = Forget(used, cache')
            /\ UNCHANGED trip
    /\ UNCHANGED <<now, proxyVars, fp, certVars, file, proc>>

\* ret.branch is the error returned, ret.ok tells that it is nil, and
\* ret.count is the number of keys of the store at the call.
CallSaveToFile(failure) ==
    /\ nops < MaxPersistOps
    /\ nops' = nops + 1
    /\ LET s == SaveToFile(cache, file, failure)
       IN  /\ file' = s.file
           /\ ret' = Ret("SaveToFile", <<>>, <<>>, s.err, NoEntry,
                         s.err = "", Cardinality(DOMAIN cache.items))
    /\ trip' = [items |-> cache.items, stage |-> "saved"]
    /\ UNCHANGED <<cache, used, now, proxyVars, fp, certVars, proc>>

CallLoadFromFile ==
    /\ nops < MaxPersistOps
    /\ nops' = nops + 1
    /\ LET l == LoadFromFile(cache, file)
       IN  /\ cache' = l.c
           /\ ret' = Ret("LoadFromFile", <<>>, <<>>, l.err, NoEntry,
                         l.err = "", Cardinality(DOMAIN cache.items))
    /\ trip' = IF trip.stage = "new"
               THEN [trip EXCEPT !.stage = "loaded"] ELSE NoTrip
    /\ UNCHANGED <<used, now, proxyVars, fp, certVars, file, proc>>

\* A new, empty store of the same configuration.
CallNewMemoryCache ==
    /\ nops < MaxPersistOps
    /\ nops' = nops + 1
    /\ cache' = NewMemoryCache(cache.defaultTTL, cache.maxSize \div MB)
    /\ ret' = Ret("NewMemoryCache", <<>>, <<>>, "", NoEntry, FALSE, 0)
    /\ used' = <<>>
    /\ trip' = IF trip.stage = "saved"
               THEN [trip EXCEPT !.stage = "new"] ELSE NoTrip
    /\ UNCHANGED <<now, proxyVars, fp, certVars, file, proc>>

PersistTick ==
    /\ now < MaxTime
    /\ now' = now + 1
    /\ UNCHANGED <<cache, ret, nops, used, proxyVars, fp, certVars, osVars>>

PersistNext ==
    \/ \E k \in PersistKeys : PersistGet(k)
    \/ \E k \in PersistKeys, b \in PersistBodies : PersistSet(k, b)
    \/ PersistSweep
    \/ \E failure \in SaveFailures \cup {""} : CallSaveToFile(failure)
    \/ CallLoadFromFile
    \/ CallNewMemoryCache
    \/ PersistTick

PersistInit ==
    \E f \in PersistFiles :
        /\ StartServer(CacheConfig(FALSE, FALSE), 1)
        /\ fp = NoFingerprints
        /\ file = f
        /\ trip = NoTrip
        /\ proc = Process(TRUE, 0)

SpecPersist == PersistInit /\ [][PersistNext]_vars

(***************************************************************************)
(* Shutdown of the process (cmd/gocache/main.go: startServer, its shutdown *)
(* closure and handleSignals; control.go: handleShutdown).                 *)
(***************************************************************************)
\* context.WithTimeout(context.Background(), 10*time.Second)
DrainDeadline == 10

ShutdownKey == URLString(URL("http", HostA, Path1, <<>>))

Running == proc.exited = ""

\* SIGINT or SIGTERM reaches the signal goroutine, or POST /shutdown starts
\* a goroutine: the closure creates its context and calls p.Shutdown, which
\* closes the listener and then waits for the connections to become idle.
RequestShutdown(g) ==
    /\ Running
    /\ proc.sd[g].pc = "idle"
    /\ proc' = [proc EXCEPT !.sd[g].pc = "drain", !.server = "closed"]
    /\ UNCHANGED <<serverVars, fp, certVars, file, trip>>

\* p.Start: ListenAndServe returns ErrServerClosed as soon as Shutdown has
\* been called.
ListenAndServeReturns ==
    /\ Running
    /\ proc.main = "serving"
    /\ proc.server = "closed"
    /\ proc' = [proc EXCEPT !.main = "returned"]
    /\ UNCHANGED <<serverVars, fp, certVars, file, trip>>

\* startServer returns, run returns nil, main returns: the process ends.
MainReturns ==
    /\ Running
    /\ proc.main = "returned"
    /\ proc' = [proc EXCEPT !.exited = "main"]
    /\ UNCHANGED <<serverVars, fp, certVars, file, trip>>

\* A request in flight completes; it may have inserted its response.
RequestCompletes(stores) ==
    /\ Running
    /\ proc.inflight > 0
    /\ proc' = [proc EXCEPT !.inflight = @ - 1]
    /\ cache' = IF stores
                THEN Set(cache, ShutdownKey, StoreEntry(<<"x">>), now)
                ELSE cache
    /\ UNCHANGED <<now, ret, nops, used, proxyVars, fp, certVars, file, trip>>

\* A second passes for the callers waiting in p.Shutdown.
DrainTick ==
    /\ Running
    /\ \E g \in ShutdownCallers : proc.sd[g].pc = "drain"
    /\ \A g \in ShutdownCallers :
           proc.sd[g].pc = "drain" => proc.sd[g].waited < DrainDeadline
    /\ proc' = [proc EXCEPT !.sd =
                    [g \in ShutdownCallers |->
                        IF proc.sd[g].pc = "drain"
                        THEN [proc.sd[g] EXCEPT !.waited = @ + 1]
                        ELSE proc.sd[g]]]
    /\ UNCHANGED <<serverVars, fp, certVars, file, trip>>

\* p.Shutdown returns: all connections are idle, or the context is done.
DrainReturns(g) ==
    /\ Running
    /\ proc.sd[g].pc = "drain"
    /\ proc.inflight = 0 \/ proc.sd[g].waited = DrainDeadline
    /\ proc' = [proc EXCEPT !.sd[g].pc =
                    IF proc.persist THEN "save" ELSE "exit"]
    /\ UNCHANGED <<serverVars, fp, certVars, file, trip>>

\* if cfg.Persistence.Enable { c.SaveToFile(...) }: an error is logged.
ShutdownSaves(g, failure) ==
    /\ Running
    /\ proc.sd[g].pc = "save"
    /\ file' = SaveToFile(cache, file, failure).file
    /\ proc' = [proc EXCEPT !.sd[g].pc = "exit", !.saves = @ + 1]
    /\ UNCHANGED <<serverVars, fp, certVars, trip>>

\* exit(0) at the end of the closure.
ShutdownExits(g) ==
    /\ Running
    /\ proc.sd[g].pc = "exit"
    /\ proc' = [proc EXCEPT !.exited = "shutdown"]
    /\ UNCHANGED <<serverVars, fp, certVars, file, trip>>

ShutdownNext ==
    \/ \E g \in ShutdownCallers : RequestShutdown(g)
    \/ ListenAndServeReturns
    \/ MainReturns
    \/ \E stores \in BOOLEAN : RequestCompletes(stores)
    \/ DrainTick
    \/ \E g \in ShutdownCallers : DrainReturns(g)
    \/ \E g \in ShutdownCallers, failure \in SaveFailures \cup {""} :
           ShutdownSaves(g, failure)
    \/ \E g \in ShutdownCallers : ShutdownExits(g)

ShutdownInit ==
    \E persist \in BOOLEAN, inflight \in 0..NumConns :
        /\ StartServer(CacheConfig(FALSE, FALSE), 1)
        /\ fp = NoFingerprints
        /\ file \in {NoFile, GobFile({}, FALSE)}
        /\ trip = NoTrip
        /\ proc = Process(persist, inflight)

SpecShutdown == ShutdownInit /\ [][ShutdownNext]_vars

\* The running process while time passes, the clock counting the intervals
\* of persistence.auto_save_interval since the start: startServer starts
\* nothing that acts when one has passed.
AutoSaveIntervalPasses ==
    /\ Running
    /\ now < MaxTime
    /\ now' = now + 1
    /\ UNCHANGED <<cache, ret, nops, used, proxyVars, fp, certVars, osVars>>

AutoSaveNext == ShutdownNext \/ AutoSaveIntervalPasses

SpecAutoSave == ShutdownInit /\ [][AutoSaveNext]_vars

(***************************************************************************)
(* Reload of the configuration (control.go: ReloadConfig, reached from     *)
(* SIGHUP and POST /reload) while the proxy serves requests.               *)
(***************************************************************************)
MaxReloads == 1

ReloadRequests ==
    { Request(FALSE, "GET", URL("http", HostA, Path1, <<>>), <<>>),
      Request(FALSE, "POST", URL("http", HostA, Path1, <<>>), <<"x">>),
      Request(TRUE, "GET", URL("", HostA, Path1, <<>>), <<>>) }

ReloadOutcomes ==
    { Outcome("", 200, Header(TextHTML, <<>>), <<"x">>),
      Outcome("", 404, Header(TextHTML, <<>>), <<"z">>),
      Outcome("", 200, Header(OctetStream, <<NoStore>>), <<"x">>) }

\* The configurations the file holds: they differ in default_ttl,
\* negative_ttl, ignore_no_cache, the cacheable types and post_cache.enable.
ReloadConfigs ==
    { CacheConfig(FALSE, FALSE),
      [CacheConfig(TRUE, TRUE) EXCEPT !.DefaultTTL = 1, !.NegativeTTL = 2,
                                      !.CacheableTypes = {OctetStream}] }

\* config.LoadConfig returns an error: ReloadConfig returns it.
ReloadConfigFails ==
    /\ ~proc.reload.pending
    /\ proc.reload.count < MaxReloads
    /\ proc' = [proc EXCEPT !.reload.count = @ + 1]
    /\ UNCHANGED <<serverVars, fp, certVars, file, trip>>

\* ReloadConfig up to a.cache.UpdateTTL: the file holds newCfg.
ReloadUpdateTTL(newCfg) ==
    /\ ~proc.reload.pending
    /\ proc.reload.count < MaxReloads
    /\ cache' = UpdateTTL(cache, newCfg.DefaultTTL)
    /\ proc' = [proc EXCEPT !.reload = [pending |-> TRUE, cfg |-> newCfg,
                                        count |-> @.count + 1]]
    /\ UNCHANGED <<now, ret, nops, used, proxyVars, fp, certVars, file, trip>>

\* ReloadConfig from a.proxy.SetConfig(newCfg) to its return.
ReloadSetConfig ==
    /\ proc.reload.pending
    /\ config' = proc.reload.cfg
    /\ proc' = [proc EXCEPT !.reload.pending = FALSE]
    /\ UNCHANGED <<cache, now, ret, nops, used, heap, conn, nreq, sent, fp,
                   certVars, file, trip>>

ReloadNext ==
    \/ ProxyNext(ReloadRequests, ReloadOutcomes)
    \/ ReloadConfigFails
    \/ \E newCfg \in ReloadConfigs : ReloadUpdateTTL(newCfg)
    \/ ReloadSetConfig

ReloadInit ==
    \E cfg \in ReloadConfigs :
        StartServer(cfg, 1) /\ fp = NoFingerprints /\ NoPersistence

SpecReload == ReloadInit /\ [][ReloadNext]_vars

(***************************************************************************)
(* The expiry sweeper of the store (cache.go: cleanupExpired, Shutdown)    *)
(* beside the calls of the package's users. The clock counts intervals of  *)
(* the ticker.                                                             *)
(***************************************************************************)
MaxShutdowns == 2

SweeperKeys == { URLString(URL("http", HostA, Path1, <<>>)) }

\* An interval passes: the ticker, unless the sweeper has stopped it,
\* leaves a tick in ticker.C, whose buffer holds one.
TickerFires ==
    /\ Running
    /\ now < MaxTime
    /\ now' = now + 1
    /\ proc' = [proc EXCEPT !.sweeper.tick =
                    IF proc.sweeper.pc = "done" THEN @ ELSE TRUE]
    /\ UNCHANGED <<cache, ret, nops, used, proxyVars, fp, certVars, file, trip>>

\* select takes case <-ticker.C.
SweeperReceivesTick ==
    /\ Running
    /\ proc.sweeper.pc = "select"
    /\ proc.sweeper.tick
    /\ proc' = [proc EXCEPT !.sweeper.pc = "sweep", !.sweeper.tick = FALSE,
                            !.sweeper.late = proc.sweeper.stopped]
    /\ UNCHANGED <<serverVars, fp, certVars, file, trip>>

\* c.removeExpiredEntries(), and back to the select.
SweeperSweeps ==
    /\ Running
    /\ proc.sweeper.pc = "sweep"
    /\ cache' = removeExpiredEntries(cache, now)
    /\ proc' = [proc EXCEPT !.sweeper.pc = "select", !.sweeper.sweeps = @ + 1]
    /\ UNCHANGED <<now, ret, nops, used, proxyVars, fp, certVars, file, trip>>

\* select takes case <-c.stopCleanup: the goroutine returns, and the
\* deferred ticker.Stop() runs.
SweeperStops ==
    /\ Running
    /\ proc.sweeper.pc = "select"
    /\ proc.sweeper.stopped
    /\ proc' = [proc EXCEPT !.sweeper.pc = "done"]
    /\ UNCHANGED <<serverVars, fp, certVars, file, trip>>

\* MemoryCache.Shutdown, called directly or by Proxy.Close:
\* close(c.stopCleanup) panics when the channel is closed already.
StoreShutdown ==
    /\ Running
    /\ proc.sweeper.calls < MaxShutdowns
    /\ proc' = [proc EXCEPT !.sweeper.calls = @ + 1,
                            !.sweeper.stopped = TRUE,
                            !.exited = IF proc.sweeper.stopped
                                       THEN "panic" ELSE @]
    /\ UNCHANGED <<serverVars, fp, certVars, file, trip>>

SweeperInserts(key, body, ttl) ==
    /\ Running
    /\ CallSetWithTTL(key, body, ttl)

SweeperNext ==
    \/ TickerFires
    \/ SweeperReceivesTick
    \/ SweeperSweeps
    \/ SweeperStops
    \/ StoreShutdown
    \/ \E k \in SweeperKeys, b \in StoreBodies, ttl \in StoreTTLs :
           SweeperInserts(k, b, ttl)

SweeperInit ==
    StartServer(CacheConfig(FALSE, FALSE), 1) /\ fp = NoFingerprints
        /\ NoPersistence

SpecSweeper == SweeperInit /\ [][SweeperNext]_vars

\* The scheduler runs a goroutine that can run, and select chooses among
\* its ready cases at random, so that a case that is ready again and again
\* is taken.
SpecSweeperFair ==
    /\ SpecSweeper
    /\ WF_vars(SweeperReceivesTick)
    /\ WF_vars(SweeperSweeps)
    /\ SF_vars(SweeperStops)

(***************************************************************************)
(* Properties of the store.                                                *)
(***************************************************************************)
RECURSIVE SumBodies(_, _)
SumBodies(items, keys) ==
    IF keys = {} THEN 0
    ELSE LET k == CHOOSE x \in keys : TRUE
         IN  Len(items[k].entry.Body) + SumBodies(items, keys \ {k})

StoredKeys == DOMAIN cache.items

\* A step that is a call of Get, with ret'.key its argument.
IsLookup == nops' = nops + 1 /\ ret'.fn = "Get"

\* A step that is a call of Set or SetWithTTL, with ret'.key and
\* ret'.body its arguments.
IsInsert == nops' = nops + 1 /\ ret'.fn \in {"Set", "SetWithTTL"}

\* C1: after every completed operation of any sequence of inserts,
\* lookups, purges and sweeps, currentSize (reported as TotalSize) is the
\* sum of the body sizes of the entries in the store.
C1_CurrentSizeIsSumOfBodies ==
    cache.currentSize = SumBodies(cache.items, StoredKeys)

\* A sweep has run on a store that has evicted, and entries remain.
C1_Witness ==
    /\ ret.fn = "removeExpiredEntries"
    /\ cache.evictions > 0
    /\ cache.currentSize > 0

\* The smallest body size among the stored entries.
MinBodySize ==
    CHOOSE n \in {Len(cache.items[k].entry.Body) : k \in StoredKeys} :
        \A k \in StoredKeys : n <= Len(cache.items[k].entry.Body)

\* C2: with maxSize > 0, currentSize never exceeds maxSize after an
\* insert, whatever was done before; hence the number of entries times
\* the smallest stored body size is at most maxSize.
C2_SizeWithinMaxSize ==
    cache.maxSize > 0 =>
        /\ cache.currentSize <= cache.maxSize
        /\ StoredKeys # {} =>
               Cardinality(StoredKeys) * MinBodySize <= cache.maxSize

\* An insert has completed on a full bounded store after an eviction.
C2_Witness ==
    /\ ret.fn \in {"Set", "SetWithTTL"}
    /\ ret.branch = "stored"
    /\ cache.maxSize > 0
    /\ cache.evictions > 0
    /\ cache.currentSize = cache.maxSize
    /\ Cardinality(StoredKeys) = 2

\* C3: Get never returns an entry whose expiry is earlier than now; a Get
\* that finds such an entry removes it, takes its body size out of
\* currentSize, adds one to misses, leaves hits alone and returns none,
\* whether or not the sweeper has run.
C3_ExpiredNeverReturned ==
    [][IsLookup =>
          LET key == ret'.key
          IN  /\ ret'.ok => ret'.entry.Expiry >= now
              /\ (key \in StoredKeys /\ cache.items[key].entry.Expiry < now) =>
                     /\ ~ret'.ok
                     /\ ret'.entry = NoEntry
                     /\ key \notin DOMAIN cache'.items
                     /\ \A i \in 1..Len(cache'.lruList) :
                            cache'.lruList[i].key # key
                     /\ cache'.currentSize =
                            cache.currentSize
                                - Len(cache.items[key].entry.Body)
                     /\ cache'.misses = cache.misses + 1
                     /\ cache'.hits = cache.hits]_vars

\* A Get has found an expired entry that no sweep had removed.
C3_Witness ==
    /\ ret.fn = "Get"
    /\ ret.branch = "expired"
    /\ ~ret.ok
    /\ ret.key \notin StoredKeys
    /\ cache.misses > 0

\* e was used less recently than r.
LessRecent(order, e, r) ==
    \E i, j \in 1..Len(order) : order[i] = r /\ order[j] = e /\ i < j

\* The keys an insert under key has evicted.
Evicted == {k \in StoredKeys \ {ret'.key} : k \notin DOMAIN cache'.items}

\* C4: an insert that has to evict removes entries in least-recently-used
\* order, recency being set by the insert and by every successful lookup
\* of an entry: no entry is evicted while a less recently used one stays.
C4_EvictsLeastRecentlyUsed ==
    [][IsInsert =>
          /\ Cardinality(Evicted) = cache'.evictions - cache.evictions
          /\ \A e \in Evicted :
                 \A r \in (StoredKeys \ {ret'.key}) \ Evicted :
                     LessRecent(used, e, r)]_vars

\* Two inserts, a lookup of the older entry, and a third insert that
\* evicted the entry that was not looked up.
C4_Witness ==
    /\ ret.fn \in {"Set", "SetWithTTL"}
    /\ nops = 4
    /\ cache.hits = 1
    /\ cache.evictions = 1
    /\ Cardinality(StoredKeys) = 2
    /\ Len(cache.lruList) = 2
    /\ cache.lruList[1].key = ret.key
    /\ cache.lruList[2].entry.Expiry < cache.lruList[1].entry.Expiry

\* C5: an insert of an entry whose body is larger than maxSize > 0 does
\* nothing: no entry is added, replaced or evicted, and currentSize, the
\* LRU order and the counters stay as they were.
C5_OversizedInsertIsNoOp ==
    [][(IsInsert /\ cache.maxSize > 0 /\ Len(ret'.body) > cache.maxSize)
          => cache' = cache]_vars

\* An oversized insert was rejected under a key that holds an entry.
C5_Witness ==
    /\ ret.fn \in {"Set", "SetWithTTL"}
    /\ ret.branch = "rejected"
    /\ ret.key \in StoredKeys
    /\ Cardinality(StoredKeys) = 2
    /\ cache.hits > 0

\* What an insert under a key that holds an entry leaves behind: no more
\* entries than before, the old body size taken out of currentSize and
\* the new one added, and the inserted value stored under the key.
Replaces(key, body) ==
    /\ Cardinality(DOMAIN cache'.items) <= Cardinality(StoredKeys)
    /\ cache'.currentSize =
           cache.currentSize - Len(cache.items[key].entry.Body)
               - SumBodies(cache.items, Evicted) + Len(body)
    /\ key \in DOMAIN cache'.items
    /\ cache'.items[key].entry.Body = body
    /\ Len(SelectSeq(cache'.lruList, LAMBDA n : n.key = key)) = 1

\* C7 as stated: every insert under a key that holds an entry replaces
\* it, the value stored afterwards being that of the last insert.
C7_EveryInsertReplaces ==
    [][(IsInsert /\ ret'.key \in StoredKeys)
          => Replaces(ret'.key, ret'.body)]_vars

\* C7: an insert that is not rejected as oversized, under a key that
\* holds an entry, replaces it; the value stored afterwards is that of
\* the last such insert.
C7_AcceptedInsertReplaces ==
    [][(IsInsert /\ ret'.key \in StoredKeys
            /\ ~(cache.maxSize > 0 /\ Len(ret'.body) > cache.maxSize))
          => Replaces(ret'.key, ret'.body)]_vars

\* An insert, a lookup that found the entry, and a second insert under
\* the same key in an unbounded store.
C7_Witness ==
    /\ ret.fn \in {"Set", "SetWithTTL"}
    /\ ret.branch = "stored"
    /\ nops = 3
    /\ cache.hits = 1
    /\ cache.maxSize = 0
    /\ StoredKeys = {ret.key}

(***************************************************************************)
(* Properties of the proxy.                                                *)
(***************************************************************************)
\* A request is keyable when it is a GET, or a POST with POST caching
\* enabled; its fingerprint is the key it is stored under.
Keyable(cfg, r) ==
    r.Method = "GET" \/ (r.Method = "POST" /\ cfg.PostCache.Enable)

Fingerprint(cfg, r) ==
    IF r.Method = "POST" THEN getPostCacheKey(cfg, r, r.Body)
    ELSE getCacheKey(r)

\* The store holds an entry under key that has not expired at t.
Fresh(c, key, t) ==
    key \in DOMAIN c.items /\ c.items[key].entry.Expiry >= t

\* The responses the origin gives, as a handler receives them.
OriginResponses == {o \in OriginOutcomes : o.err = ""}

\* C6: a lookup that finds an entry returns the status, headers and body
\* that were inserted: the response of the origin, as it was received.
C6_LookupReturnsInserted ==
    sent.out.served = "store" =>
        \E o \in OriginResponses :
            /\ sent.out.StatusCode = o.StatusCode
            /\ sent.out.Body = o.Body
            /\ sent.got = o.Header

\* A handler has answered from the store.
C6_Witness ==
    /\ sent.out.served = "store"
    /\ cache.hits > 0

\* C8: a response served from the store carries X-Cache: HIT, a response
\* fetched from the origin for a keyable request carries X-Cache: MISS,
\* and every other response carries no X-Cache header.
C8_XCacheTellsTheSource ==
    LET xcache == sent.out.Header.XCache
    IN  /\ sent.out.served = "store" => xcache = <<"HIT">>
        /\ sent.out.served = "origin" =>
               xcache = IF Keyable(config, sent.req)
                        THEN <<"MISS">> ELSE <<>>
        /\ sent.out.served \in {"error", "none"} => xcache = <<>>

\* A response fetched from the origin for a GET has been written.
C8_Witness ==
    /\ sent.out.served = "origin"
    /\ sent.req.Method = "GET"
    /\ sent.out.Header.XCache = <<"MISS">>

\* C9: a handler that takes a keyable request whose fingerprint has a
\* non-expired entry in the store does not go to the origin; it answers
\* with the stored status and body.
C9_FreshEntryAnswersFromStore ==
    [][\A c \in Conns :
          (nreq' = nreq + 1 /\ conn[c].pc = "idle"
               /\ conn'[c].pc = "forward"
               /\ Keyable(config, conn'[c].req))
          => ~Fresh(cache, Fingerprint(config, conn'[c].req), now)]_vars

\* A second identical GET was answered from the store.
C9_Witness ==
    /\ sent.out.served = "store"
    /\ sent.req.Method = "GET"
    /\ nreq = 2
    /\ cache.hits = 1
    /\ cache.misses = 1
    /\ \A c \in Conns : conn[c].pc = "idle"

\* C10: for the inner request of a CONNECT, handleHTTPS decides whether
\* to look the request up, under which key, whether to insert the
\* response and whether to mark it with X-Cache as the handler of the
\* same plain request does.
C10_ConnectDecidesAsPlain ==
    \A c \in Conns :
        (conn[c].handler = "handleHTTPS" /\ conn[c].pc # "idle") =>
            LET plain == HandlerOf(config, [conn[c].req EXCEPT
                                                !.Connect = FALSE])
                cn == [conn[c] EXCEPT !.handler = plain]
            IN  /\ conn[c].keyed = LooksUp(plain, conn[c].req)
                /\ conn[c].keyed =>
                       conn[c].cacheKey
                           = CacheKeyOf(plain, config, conn[c].req)
                /\ MarksMiss(conn[c]) = MarksMiss(cn)
                /\ conn[c].pc = "store" =>
                       Stores(conn[c], config, heap[conn[c].resp.Header])
                           = Stores(cn, config, heap[conn[c].resp.Header])

\* handleHTTPS is serving the inner POST of a CONNECT with POST caching
\* enabled.
C10_Witness ==
    \E c \in Conns :
        /\ conn[c].handler = "handleHTTPS"
        /\ conn[c].pc = "store"
        /\ conn[c].req.Method = "POST"
        /\ config.PostCache.Enable

(***************************************************************************)
(* Properties of the cacheability gate, the lifetimes and the error paths. *)
(***************************************************************************)
\* Connection c takes the step in which its handler decides on the insert.
IsStoreStep(c) == conn[c].pc = "store" /\ conn'[c].pc = "write"

\* The gate on a response header h: a Content-Type that starts with a
\* cacheable type and, unless ignore_no_cache is set, no Cache-Control
\* line containing no-cache or no-store and no Pragma: no-cache line.
PassesGate(cfg, h) ==
    /\ \E t \in cfg.CacheableTypes :
           \E i \in 1..Len(h.ContentType) : HasPrefix(h.ContentType[i], t)
    /\ \/ cfg.IgnoreNoCache
       \/ /\ \A i \in 1..Len(h.CacheControl) :
                 /\ ~Contains(h.CacheControl[i], <<"no-cache">>)
                 /\ ~Contains(h.CacheControl[i], <<"no-store">>)
          /\ \A i \in 1..Len(h.Pragma) : h.Pragma[i] # <<"no-cache">>

\* C11: an origin response is inserted only if it passes the gate; a
\* response that fails it leaves the stored entries as they were.
C11_OnlyGatedResponsesInserted ==
    [][\A c \in Conns :
          (IsStoreStep(c)
               /\ ~PassesGate(config, heap[conn[c].resp.Header]))
          => cache'.items = cache.items]_vars

\* A 200 application/octet-stream response to a GET went through the
\* insert decision and the store is empty.
C11_Witness ==
    \E c \in Conns :
        /\ conn[c].pc = "write"
        /\ conn[c].req.Method = "GET"
        /\ heap[conn[c].resp.Header].ContentType = <<OctetStream>>
        /\ DOMAIN cache.items = {}

\* The lifetime claimed for a response with the given status.
ttl_for(cfg, statusCode) ==
    IF statusCode \in 400..599 THEN cfg.NegativeTTL ELSE cfg.DefaultTTL

\* A step in which a handler answered a request from the store.
IsHitStep ==
    nreq' = nreq + 1 /\ conn' = conn /\ sent'.out.served = "store"

\* C12: a response cached with a status in 400..599 expires negative_ttl
\* after its insertion, any other default_ttl after its insertion, and a
\* request is answered from the store exactly while the entry under its
\* key has not expired.
C12_LifetimeByStatus ==
    [][/\ \A c \in Conns :
              (IsStoreStep(c) /\ cache'.items # cache.items) =>
                  LET e == cache'.items[conn[c].cacheKey].entry
                  IN  /\ e.StatusCode = conn[c].resp.StatusCode
                      /\ e.Expiry = now + ttl_for(config, e.StatusCode)
       /\ IsHitStep =>
              Fresh(cache, Fingerprint(config, sent'.req), now)
       /\ \A c \in Conns :
              (nreq' = nreq + 1 /\ conn[c].pc = "idle"
                   /\ conn'[c].pc = "forward" /\ conn'[c].keyed)
              => ~Fresh(cache, conn'[c].cacheKey, now)]_vars

\* A 200 and a 404 cached at the same instant, at a later instant at
\* which the 404 has expired and the 200 has not.
C12_Witness ==
    \E k1, k2 \in DOMAIN cache.items :
        LET e1 == cache.items[k1].entry
            e2 == cache.items[k2].entry
        IN  /\ e1.StatusCode = 200
            /\ e2.StatusCode = 404
            /\ e1.Expiry - config.DefaultTTL = e2.Expiry - config.NegativeTTL
            /\ Fresh(cache, k1, now)
            /\ ~Fresh(cache, k2, now)


(***************************************************************************)
(* Claims about the cache keys (SpecKey).                                  *)
(***************************************************************************)
\* The values of key k in the raw query q, in their order.
ValuesOf(q, k) == SelectSeq(q, LAMBDA kv : kv[1] = k)

KeysOf(q) == {q[i][1] : i \in 1..Len(q)}

\* u1 and u2 differ at most in the order of their query keys and in their
\* fragment.
SameUpToKeyOrderAndFragment(u1, u2) ==
    /\ u1.Scheme = u2.Scheme /\ u1.Host = u2.Host /\ u1.Path = u2.Path
    /\ \A k \in KeysOf(u1.RawQuery) \cup KeysOf(u2.RawQuery) :
           ValuesOf(u1.RawQuery, k) = ValuesOf(u2.RawQuery, k)

GetKeysComputed == fp.key # <<>> /\ fp.r[1].Method = "GET"

PostKeysComputed == fp.key # <<>> /\ fp.r[1].Method = "POST"

\* C13: two GET requests have the same fingerprint exactly when they
\* differ at most in the order of their query keys and in their fragment:
\* a difference in scheme, host, port, path or in any query key or value
\* gives different fingerprints, and the values of one key keep their order.
C13_GetKeyIsCanonical ==
    GetKeysComputed =>
        ((fp.key[1] = fp.key[2])
            <=> SameUpToKeyOrderAndFragment(fp.r[1].URL, fp.r[2].URL))

\* Two GET requests whose queries list the same pairs in a different key
\* order, and share their fingerprint.
C13_Witness ==
    /\ GetKeysComputed
    /\ fp.r[1].URL.RawQuery = Query2("a", "1", "b", "2")
    /\ fp.r[2].URL.RawQuery = Query2("b", "2", "a", "1")
    /\ fp.key[1] = fp.key[2]

\* The well-formed part of C13: for queries without an invalid escape.
WellFormedQuery(u) == Query(u) = u.RawQuery

GetKeyIsCanonicalWhenWellFormed ==
    (GetKeysComputed /\ \A i \in 1..2 : WellFormedQuery(fp.r[i].URL)) =>
        ((fp.key[1] = fp.key[2])
            <=> SameUpToKeyOrderAndFragment(fp.r[1].URL, fp.r[2].URL))

\* Same scheme, host, path and body, and the same raw query when the
\* configuration includes it.
SamePost(cfg, r1, r2) ==
    /\ r1.URL.Scheme = r2.URL.Scheme /\ r1.URL.Host = r2.URL.Host
    /\ r1.URL.Path = r2.URL.Path /\ r1.Body = r2.Body
    /\ cfg.PostCache.IncludeQueryString =>
           r1.URL.RawQuery = r2.URL.RawQuery

\* C14: two POST requests have the same fingerprint exactly when they have
\* the same scheme, host, path and body and, only when include_query_string
\* is set, the same raw query.
C14_PostKeyIsInjective ==
    PostKeysComputed =>
        ((fp.key[1] = fp.key[2]) <=> SamePost(config, fp.r[1], fp.r[2]))

\* Two POST requests that differ only in their query share a fingerprint
\* when the query is not included.
C14_Witness ==
    /\ PostKeysComputed
    /\ ~config.PostCache.IncludeQueryString
    /\ fp.r[1].URL.RawQuery # fp.r[2].URL.RawQuery
    /\ fp.r[1].URL.Path = fp.r[2].URL.Path
    /\ fp.key[1] = fp.key[2]


(***************************************************************************)
(* Claims about failures and about the limits on POST bodies.              *)
(***************************************************************************)
\* A step in which the round trip of connection c, or the reading of the
\* response body, failed.
IsFailStep(c) == conn[c].pc = "forward" /\ conn'[c].pc = "idle"

\* C15: when the origin cannot be reached or its body cannot be read, the
\* plain-HTTP handlers reply 503 and return without writing to the store:
\* the store is the one the request found.
C15_FailureIsNotCached ==
    [][\A c \in Conns :
           (IsFailStep(c) /\ conn[c].handler # "handleHTTPS") =>
               /\ sent'.req = conn[c].req
               /\ sent'.out = ErrorOut(503)
               /\ cache' = cache
               /\ heap' = heap]_vars

\* A keyed GET answered 503 while the store holds an entry.
C15_Witness ==
    /\ sent.handler = "handleHTTP"
    /\ sent.req.Method = "GET"
    /\ sent.out = ErrorOut(503)
    /\ DOMAIN cache.items # {}

\* A POST request whose body is larger than max_request_body_size_mb, POST
\* caching being enabled.
OversizedPost(r) ==
    /\ config.PostCache.Enable
    /\ r.Method = "POST"
    /\ RequestBodyTooLarge(config, r.Body)

\* C16: an oversized POST request is answered 413 without X-Cache, is not
\* forwarded, and the store is neither looked up nor modified.
C16_OversizedPostIsRefused ==
    [][/\ \A c \in Conns :
              (conn[c].pc = "idle" /\ conn'[c].pc # "idle")
                  => ~OversizedPost(conn'[c].req)
       /\ (nreq' = nreq + 1 /\ conn' = conn /\ OversizedPost(sent'.req)) =>
              /\ sent'.out = ErrorOut(413)
              /\ sent'.out.Header.XCache = <<>>
              /\ cache' = cache]_vars

\* An oversized plain POST answered 413 while the store holds an entry.
C16_Witness ==
    /\ sent.handler = "handlePostRequest"
    /\ OversizedPost(sent.req)
    /\ sent.out = ErrorOut(413)
    /\ DOMAIN cache.items # {}

\* A response body larger than max_response_body_size_mb.
ResponseBodyTooLarge(cfg, body) ==
    Len(body) > cfg.PostCache.MaxResponseBodySizeMB * MB

\* C17: a POST response whose body is larger than the limit is written to
\* the client and the store is left as it is; no POST is answered from the
\* store with such a body.
C17_OversizedPostResponseNotInserted ==
    [][/\ \A c \in Conns :
              (IsStoreStep(c) /\ conn[c].req.Method = "POST"
                   /\ ResponseBodyTooLarge(config, conn[c].resp.Body))
              => /\ cache' = cache
                 /\ conn'[c].resp = conn[c].resp
       /\ \A c \in Conns :
              (conn[c].pc = "write" /\ conn'[c].pc = "idle"
                   /\ conn[c].req.Method = "POST")
              => /\ sent'.out.served = "origin"
                 /\ sent'.out.Body = conn[c].resp.Body
       /\ (IsHitStep /\ sent'.req.Method = "POST") =>
              ~ResponseBodyTooLarge(config, sent'.out.Body)]_vars

\* An oversized response to a keyed POST was written to the client, and
\* the store, which has room for it, is empty.
C17_Witness ==
    /\ sent.handler = "handlePostRequest"
    /\ sent.out.served = "origin"
    /\ ResponseBodyTooLarge(config, sent.out.Body)
    /\ Len(sent.out.Body) <= cache.maxSize
    /\ DOMAIN cache.items = {}


(***************************************************************************)
(* Claims about the certificate store (SpecCert).                          *)
(***************************************************************************)
ListElems(l) == {l[i] : i \in 1..Len(l)}

\* The map and the LRU list hold the same entries.
CertStoreConsistent ==
    /\ ListElems(certLRUList) = {certCache[h] : h \in DOMAIN certCache}
    /\ Len(certLRUList) = Cardinality(DOMAIN certCache)
    /\ \A h \in DOMAIN certCache : certCache[h].host = h

\* A step in which goroutine g's call of getCert returns.
Returned(g) == getCertCalls[g].pc # "idle" /\ getCertCalls'[g].pc = "idle"

\* A step in which a leaf is minted.
Minted == serial' = serial + 1

\* C18: under any interleaving of calls of getCert the map and the LRU list
\* hold the same entries, a promotion moves only a node that is still in
\* the store, and when max_entries > 0 the store holds at most max_entries
\* leaves after every completed call.
C18_CertStoreIntegrity ==
    /\ []CertStoreConsistent
    /\ [][\A g \in Goroutines :
              Returned(g) =>
                  /\ certLRUList' # certLRUList /\ ~Minted =>
                         /\ getCertCalls[g].host \in DOMAIN certCache
                         /\ certLRUList'[1] = certCache[getCertCalls[g].host]
                         /\ ListElems(certLRUList') = ListElems(certLRUList)
                  /\ config.MaxCertCacheEntries > 0 =>
                         Cardinality(DOMAIN certCache')
                             <= config.MaxCertCacheEntries]_vars

\* A call found its leaf under the read lock, and the leaf was evicted
\* before the call took the write lock.
C18_Witness ==
    \E g \in Goroutines :
        /\ getCertCalls[g].pc = "hit"
        /\ getCertCalls[g].elem \notin ListElems(certLRUList)
        /\ certLRUList # <<>>

\* The structural part of C18.
CertStoreStructure ==
    /\ []CertStoreConsistent
    /\ [][\A g \in Goroutines :
              (Returned(g) /\ certLRUList' # certLRUList /\ ~Minted) =>
                  /\ getCertCalls[g].host \in DOMAIN certCache
                  /\ certLRUList'[1] = certCache[getCertCalls[g].host]
                  /\ ListElems(certLRUList') = ListElems(certLRUList)]_vars

Last(l) == l[Len(l)]

\* What a step of the store may change, the least recently used host being
\* the last of the given recency order: a minting step at capacity evicts
\* that host and nothing else and counts one eviction, any other step
\* evicts nothing.
EvictsOnly(order) ==
    LET maxEntries == config.MaxCertCacheEntries
        full == maxEntries > 0
                    /\ Cardinality(DOMAIN certCache) >= maxEntries
    IN  IF Minted /\ full
        THEN /\ DOMAIN certCache \ DOMAIN certCache' = {Last(order)}
             /\ certEvictions' = certEvictions + 1
        ELSE /\ DOMAIN certCache \subseteq DOMAIN certCache'
             /\ certEvictions' = certEvictions

\* C19 as stated: the evicted host is the least recently used one, every
\* completed hit counting as a use of its host.
C19_EvictsLeastRecentlyUsedHost == [][EvictsOnly(certUse.every)]_vars

\* C19: a miss at capacity evicts exactly one entry, the least recently
\* used host, a hit counting as a use when its promotion was applied, and
\* counts one eviction; no other step evicts, and with max_entries = 0
\* nothing is ever evicted.
C19_EvictsLeastRecentlyPromoted == [][EvictsOnly(certUse.applied)]_vars

\* get(a), get(b), get(a), get(c) with max_entries = 2 leaves a and c.
C19_Witness ==
    /\ config.MaxCertCacheEntries = 2
    /\ serial = 3
    /\ certEvictions = 1
    /\ certLRUList = << [host |-> "c", cert |-> 3], [host |-> "a", cert |-> 1] >>

\* C20: while a host's leaf stays in the store no leaf is minted for the
\* host and every call for the host returns that leaf; calls that miss
\* concurrently on one host mint one leaf and all return it.
C20_OneLeafPerHost ==
    [][/\ \A h \in DOMAIN certCache \cap DOMAIN certCache' :
              certCache'[h] = certCache[h]
       /\ \A g \in Goroutines :
              LET call == getCertCalls[g]
                  result == getCertCalls'[g]
              IN  Returned(g) =>
                      /\ result.branch = "minted" <=> Minted
                      /\ Minted => /\ call.host \notin DOMAIN certCache
                                   /\ certCache'[call.host].cert = result.cert
                      /\ result.branch = "found" =>
                             /\ certCache[call.host].cert = result.cert
                             /\ certCache' = certCache
                      /\ (result.branch = "hit"
                              /\ call.host \in DOMAIN certCache
                              /\ certCache[call.host] = call.elem) =>
                             /\ certCache[call.host].cert = result.cert
                             /\ certCache' = certCache
                      /\ result.branch = "error" => result.cert = 0]_vars

\* Two calls missed on the same host under the read lock; one minted the
\* leaf, the other found it under the write lock and returned it.
C20_Witness ==
    \E g1, g2 \in Goroutines :
        /\ getCertCalls[g1].branch = "minted"
        /\ getCertCalls[g2].branch = "found"
        /\ getCertCalls[g1].host = getCertCalls[g2].host
        /\ getCertCalls[g1].cert = getCertCalls[g2].cert
        /\ getCertCalls[g1].host \in DOMAIN certCache


(***************************************************************************)
(* Claims about the purges and the structure of the store (SpecStore).     *)
(***************************************************************************)
IsPurgeAll == nops' = nops + 1 /\ ret'.fn = "PurgeAll"

IsPurgeByDomain == nops' = nops + 1 /\ ret'.fn = "PurgeByDomain"

\* C25: purge_all removes every entry, returns the number of entries that
\* were present, resets hits, misses, evictions and current_size to zero
\* and keeps max_size and default_ttl; an insert, also after a purge, is
\* bounded by max_size and expires default_ttl after it was made.
C25_PurgeAllResets ==
    [][/\ IsPurgeAll =>
              /\ DOMAIN cache'.items = {}
              /\ cache'.lruList = <<>>
              /\ ret'.count = Cardinality(DOMAIN cache.items)
              /\ cache'.hits = 0 /\ cache'.misses = 0
              /\ cache'.evictions = 0 /\ cache'.currentSize = 0
              /\ cache'.maxSize = cache.maxSize
              /\ cache'.defaultTTL = cache.defaultTTL
       /\ (nops' = nops + 1 /\ ret'.fn = "Set" /\ ret'.branch = "stored") =>
              /\ cache'.items[ret'.key].entry.Expiry
                     = now + cache.defaultTTL
              /\ cache'.maxSize = cache.maxSize
              /\ cache'.maxSize > 0 =>
                     cache'.currentSize <= cache'.maxSize]_vars

\* A purge of a store that held two entries, as the last of four calls.
C25_Witness ==
    /\ ret.fn = "PurgeAll"
    /\ ret.count = 2
    /\ DOMAIN cache.items = {}
    /\ cache.hits = 0
    /\ nops = 4

\* The keys that purge_by_host(domain) is claimed to remove from store c.
HostMatches(c, domain) ==
    {k \in DOMAIN c.items : ParseOK(k) /\ HasPrefix(ParseHost(k), domain)}

\* C26: purge_by_host(host) removes exactly the entries whose fingerprint
\* parses as a URL whose host has the given prefix, returns their number,
\* subtracts their sizes from current_size and leaves every other entry,
\* the order of the remaining entries and the counters unchanged.
C26_PurgeByHostFrame ==
    [][IsPurgeByDomain =>
           LET gone == HostMatches(cache, ret'.key)
           IN  /\ DOMAIN cache'.items = DOMAIN cache.items \ gone
               /\ ret'.count = Cardinality(gone)
               /\ \A k \in DOMAIN cache'.items :
                      cache'.items[k] = cache.items[k]
               /\ cache'.currentSize =
                      cache.currentSize
                          - SumBodies(cache.items, gone)
               /\ cache'.lruList =
                      SelectSeq(cache.lruList, LAMBDA n : n.key \notin gone)
               /\ cache'.hits = cache.hits /\ cache'.misses = cache.misses
               /\ cache'.evictions = cache.evictions]_vars

\* The purge of host a removed the entries of hosts a and ab and left the
\* entry of host b.
C26_Witness ==
    /\ ret.fn = "PurgeByDomain"
    /\ ret.key = HostA
    /\ ret.count = 2
    /\ Cardinality(DOMAIN cache.items) = 1

\* C27: the key map and the LRU list hold the same entries.
C27_MapAndListAgree ==
    /\ Len(cache.lruList) = Cardinality(DOMAIN cache.items)
    /\ \A k \in DOMAIN cache.items :
           /\ cache.items[k].key = k
           /\ \E i \in 1..Len(cache.lruList) :
                  cache.lruList[i] = cache.items[k]

\* Two entries remain linked after a third was purged.
C27_Witness ==
    /\ ret.fn = "PurgeByURL"
    /\ ret.ok
    /\ Len(cache.lruList) = 2


(***************************************************************************)
(* Claims about concurrent misses (SpecGate).                              *)
(***************************************************************************)
\* A step in which connection c received the origin's response.
IsRoundTripStep(c) == conn[c].pc = "forward" /\ conn'[c].pc = "store"

\* C28: requests that miss on the same fingerprint are not coalesced: a
\* request that missed is forwarded whatever the other connections do, each
\* receives a response of its own from the origin, and each insert replaces
\* the entry of the fingerprint by the response of the inserting request,
\* so that the last insert is the one the store holds.
C28_NoCoalescing ==
    /\ [](\A c \in Conns :
              conn[c].pc = "forward" =>
                  ENABLED (\E o \in GateOutcomes : RoundTrip(c, o)))
    /\ [][\A c \in Conns :
              /\ IsRoundTripStep(c) =>
                     LET hid == conn'[c].resp.Header
                     IN  /\ \A d \in Conns \ {c} : conn[d].resp.Header # hid
                         /\ \A k \in DOMAIN cache.items :
                                cache.items[k].entry.Headers # hid
              /\ (IsStoreStep(c) /\ conn[c].keyed
                      /\ PassesGate(config, heap[conn[c].resp.Header])
                      /\ ~TooLarge(cache, [Body |-> conn[c].resp.Body])) =>
                     LET e == cache'.items[conn[c].cacheKey].entry
                     IN  /\ e.StatusCode = conn[c].resp.StatusCode
                         /\ e.Headers = conn[c].resp.Header
                         /\ e.Body = conn[c].resp.Body]_vars

\* Two connections missed on the same fingerprint, both were forwarded and
\* both inserted their response; the store holds the later one.
C28_Witness ==
    \E c, d \in Conns :
        /\ c # d
        /\ conn[c].pc = "write" /\ conn[d].pc = "write"
        /\ conn[c].keyed /\ conn[d].keyed
        /\ conn[c].cacheKey = conn[d].cacheKey
        /\ conn[c].resp.StatusCode # conn[d].resp.StatusCode
        /\ conn[c].cacheKey \in DOMAIN cache.items
        /\ cache.items[conn[c].cacheKey].entry.Headers = conn[d].resp.Header
        /\ PassesGate(config, heap[conn[c].resp.Header])


(***************************************************************************)
(* Claims about persistence (SpecPersist).                                 *)
(***************************************************************************)
IsSave == nops' = nops + 1 /\ ret'.fn = "SaveToFile"

IsLoad == nops' = nops + 1 /\ ret'.fn = "LoadFromFile"

\* C21: after inserts, SaveToFile, a new empty store and LoadFromFile, a
\* lookup of a fingerprint that was in the saved store and has not expired
\* returns the status, headers and body that were inserted.
C21_RoundTripReturnsSavedEntries ==
    [][(/\ IsLookup
        /\ trip.stage = "loaded"
        /\ ret'.key \in DOMAIN trip.items
        /\ trip.items[ret'.key] # NilElement
        /\ now <= trip.items[ret'.key].entry.Expiry) =>
           LET e == trip.items[ret'.key].entry
           IN  /\ ret'.ok
               /\ ret'.entry.StatusCode = e.StatusCode
               /\ ret'.entry.Headers = e.Headers
               /\ ret'.entry.Body = e.Body]_vars

\* An entry was inserted, the store saved, a new store loaded from the
\* file, and the lookup of the entry before its expiry does not find it.
C21_Witness ==
    /\ ret.fn = "Get"
    /\ trip.stage = "loaded"
    /\ ret.key \in DOMAIN trip.items
    /\ trip.items[ret.key] # NilElement
    /\ now <= trip.items[ret.key].entry.Expiry
    /\ ~ret.ok

\* C22: after a LoadFromFile that returned nil, every key of the file that
\* is in the store is linked in the LRU list, has not expired and is not
\* larger than maxSize, and currentSize is the sum of the body sizes.
C22_LoadEstablishesInvariants ==
    [][(IsLoad /\ ret'.ok) =>
           /\ \A k \in file.elems :
                  k \in DOMAIN cache'.items =>
                      /\ \E i \in 1..Len(cache'.lruList) :
                             cache'.lruList[i] = cache'.items[k]
                      /\ now < cache'.items[k].entry.Expiry
                      /\ ~TooLarge(cache', cache'.items[k].entry)
           /\ Len(cache'.lruList) = Cardinality(DOMAIN cache'.items)
           /\ cache'.currentSize
                  = SumBodies(cache'.items, DOMAIN cache'.items)]_vars

\* A load returned nil and left in the store a key that is not linked in
\* the LRU list and whose element holds no entry.
C22_Witness ==
    /\ ret.fn = "LoadFromFile"
    /\ ret.ok
    /\ \E k \in DOMAIN cache.items : Panics(cache, k)
    /\ Len(cache.lruList) < Cardinality(DOMAIN cache.items)

\* C23: a LoadFromFile that returns an error leaves the store as it was:
\* the same entries, currentSize and LRU list.
C23_FailedLoadChangesNothing ==
    [][(IsLoad /\ ~ret'.ok) => cache' = cache]_vars

\* A load into an empty store returned an error and the store holds a key.
C23_Witness ==
    /\ ret.fn = "LoadFromFile"
    /\ ~ret.ok
    /\ ret.count = 0
    /\ DOMAIN cache.items # {}

\* C24: SaveToFile never changes the store; when it returns an error the
\* cache file is what it was before the call, and when it returns nil the
\* file is the whole serialization of the keys of the store.
C24_SaveIsAtomic ==
    [][IsSave =>
           /\ cache' = cache
           /\ ret'.ok => file' = GobFile(DOMAIN cache.items, FALSE)
           /\ ~ret'.ok => file' = file]_vars

\* A save of a store that holds an entry failed over an existing file.
C24_Witness ==
    /\ ret.fn = "SaveToFile"
    /\ ~ret.ok
    /\ ret.count > 0
    /\ file.kind = "gob"


(***************************************************************************)
(* Claims about shutdown (SpecShutdown).                                   *)
(***************************************************************************)
\* The drain of caller g has returned: the connections were idle or its
\* deadline had passed.
Drained(g) == proc.inflight = 0 \/ proc.sd[g].waited = DrainDeadline

IsShutdownSave == proc'.saves = proc.saves + 1

IsExit == proc.exited = "" /\ proc'.exited # ""

\* The part of C29 about the save: SaveToFile is called only with
\* persistence enabled, by a caller whose p.Shutdown has returned, on a
\* server that no longer listens.
SaveFollowsDrain ==
    /\ [](~proc.persist => proc.saves = 0)
    /\ [][IsShutdownSave =>
              /\ proc.persist
              /\ proc.server = "closed"
              /\ \E g \in ShutdownCallers :
                     /\ proc.sd[g].pc = "save"
                     /\ proc'.sd[g].pc = "exit"
                     /\ Drained(g)]_vars

\* C29: on a shutdown request the process stops the proxy server with a
\* drain deadline of 10 seconds, then saves the store if persistence is
\* enabled, and only then exits: no save before the drain has returned,
\* no save with persistence disabled, no exit before the drain has
\* returned and the save, if any, has been made.
C29_ShutdownOrder ==
    /\ SaveFollowsDrain
    /\ [][IsExit =>
              /\ proc.server = "closed"
              /\ \E g \in ShutdownCallers :
                     proc.sd[g].pc = "exit" /\ Drained(g)
              /\ proc.persist => proc.saves > 0]_vars

\* The process has ended with persistence enabled while the shutdown
\* closure was still waiting for a request in flight, and nothing was saved.
C29_Witness ==
    /\ proc.exited = "main"
    /\ proc.persist
    /\ proc.saves = 0
    /\ proc.inflight > 0
    /\ \E g \in ShutdownCallers : proc.sd[g].pc = "drain"


(***************************************************************************)
(* Claims about the reload of the configuration (SpecReload).              *)
(***************************************************************************)
\* A step of ReloadConfig.
IsReloadStep == proc'.reload # proc.reload

\* C30: a reload installs the default TTL of the new configuration in the
\* store and the new configuration in the proxy, so that inserts after it
\* pass the gate of the new configuration and get its TTLs, and no step of
\* a reload removes or alters a stored entry: the entries, their order,
\* their headers and the size of the store are unchanged, and a lookup of
\* any key returns after the step what it returned before it.
C30_ReloadKeepsEntries ==
    /\ [](~proc.reload.pending => cache.defaultTTL = config.DefaultTTL)
    /\ [][/\ IsReloadStep =>
                 /\ cache'.items = cache.items
                 /\ cache'.lruList = cache.lruList
                 /\ cache'.currentSize = cache.currentSize
                 /\ heap' = heap
                 /\ \A k \in DOMAIN cache.items :
                        /\ Get(cache', k, now).ok = Get(cache, k, now).ok
                        /\ Get(cache', k, now).entry
                               = Get(cache, k, now).entry
          /\ (proc.reload.pending /\ ~proc'.reload.pending) =>
                 /\ config' = proc.reload.cfg
                 /\ cache'.defaultTTL = proc.reload.cfg.DefaultTTL
          /\ \A c \in Conns :
                 (IsStoreStep(c) /\ ~proc.reload.pending
                      /\ cache'.items # cache.items) =>
                     LET e == cache'.items[conn[c].cacheKey].entry
                     IN  /\ PassesGate(config, heap[e.Headers])
                         /\ e.Expiry = now + IF isErrorStatusCode(e.StatusCode)
                                             THEN config.NegativeTTL
                                             ELSE config.DefaultTTL]_vars

\* A reload has lowered default_ttl to 1, and the store still holds, and
\* returns, an entry that was inserted before it with a TTL of 2.
C30_Witness ==
    /\ proc.reload.count > 0
    /\ ~proc.reload.pending
    /\ config.DefaultTTL = 1
    /\ \E k \in DOMAIN cache.items :
           /\ cache.items[k].entry.StatusCode = 200
           /\ cache.items[k].entry.Expiry = now + 2
           /\ Get(cache, k, now).ok


(***************************************************************************)
(* Claims about the sweep and the counters of the store (SpecStore).       *)
(***************************************************************************)
\* A step that is one run of the sweep.
IsSweep == nops' = nops + 1 /\ ret'.fn = "removeExpiredEntries"

\* What a sweep that removes the keys gone leaves of the store.
SweepRemovesExactly(gone) ==
    /\ DOMAIN cache'.items = StoredKeys \ gone
    /\ \A k \in StoredKeys \ gone : cache'.items[k] = cache.items[k]
    /\ cache'.currentSize = cache.currentSize - SumBodies(cache.items, gone)
    /\ cache'.lruList = SelectSeq(cache.lruList, LAMBDA n : n.key \notin gone)
    /\ cache'.hits = cache.hits
    /\ cache'.misses = cache.misses
    /\ cache'.evictions = cache.evictions

\* C33 as stated: a sweep removes every entry whose expiry is at or before
\* now and no other, subtracts the removed body sizes from currentSize, and
\* changes neither the counters nor the order of the entries that remain.
C33_SweepRemovesExpiredInclusive ==
    [][IsSweep =>
           SweepRemovesExactly({k \in StoredKeys :
                                    cache.items[k].entry.Expiry <= now})]_vars

\* C33 amended: a sweep removes every entry whose expiry is earlier than
\* now and no other (an entry that expires at now stays, as a lookup still
\* returns it), subtracts the removed body sizes from currentSize, and
\* changes neither the counters nor the order of the entries that remain.
C33_SweepRemovesExpired ==
    [][IsSweep =>
           SweepRemovesExactly({k \in StoredKeys :
                                    cache.items[k].entry.Expiry < now})]_vars

\* A sweep has run two ticks after the inserts and has left an entry that
\* expires at the instant of the sweep, alone in a store that counted no
\* eviction.
C33_Witness ==
    /\ ret.fn = "removeExpiredEntries"
    /\ now = 2
    /\ cache.evictions = 0
    /\ Cardinality(StoredKeys) = 1
    /\ \E k \in StoredKeys : cache.items[k].entry.Expiry = now


\* A step that is a call on the store.
IsCall == nops' = nops + 1

\* C35: the evictions counter counts the entries removed by size eviction
\* since the store was created or last purged by PurgeAll: an insert adds
\* one for each entry other than its own key that it removes, PurgeAll
\* sets the counter to 0, and no other call changes it: not a replacement
\* of a key, a rejected insert, a lookup or a sweep that removes an expired
\* entry, PurgeByURL or PurgeByDomain; with maxSize = 0 it stays 0.
C35_EvictionsCountsEvictedEntries ==
    /\ [](cache.maxSize = 0 => cache.evictions = 0)
    /\ [][IsCall =>
              IF IsInsert
              THEN /\ cache'.evictions
                          = cache.evictions + Cardinality(Evicted)
                   /\ ret'.branch = "rejected" =>
                          cache'.evictions = cache.evictions
              ELSE IF ret'.fn = "PurgeAll"
              THEN cache'.evictions = 0
              ELSE cache'.evictions = cache.evictions]_vars

\* Two inserts have evicted one entry each, and a purge of one key has
\* then removed an entry and left the counter at 2.
C35_Witness ==
    /\ ret.fn = "PurgeByURL"
    /\ ret.ok
    /\ nops = 4
    /\ cache.evictions = 2
    /\ StoredKeys = {}


(***************************************************************************)
(* Claims about the keys of GET and POST requests (SpecKeyMethods).        *)
(***************************************************************************)
\* C38: the key of a GET request and the key of a POST request are never
\* the same, whatever their URLs and the body of the POST.
C38_GetAndPostKeysDisjoint == fp.key # <<>> => fp.key[1] # fp.key[2]

\* A GET whose path ends in ":" and the hash of the body of a POST to the
\* rest of the path has the key of that POST.
C38_Witness ==
    /\ fp.key # <<>>
    /\ fp.r[1].Method = "GET" /\ fp.r[2].Method = "POST"
    /\ fp.r[1].URL.Path = PathWithHash(fp.r[2].Body)
    /\ fp.key[1] = fp.key[2]


(***************************************************************************)
(* Claims about the sweeper and Shutdown (SpecSweeper).                    *)
(***************************************************************************)
\* A step in which the sweeper runs a sweep.
IsSweeperRun == proc'.sweeper.sweeps = proc.sweeper.sweeps + 1

\* A step that is a call of MemoryCache.Shutdown.
IsStoreShutdown == proc'.sweeper.calls = proc.sweeper.calls + 1

\* The parts of C34 about progress: a tick that the sweeper can receive
\* leads to a sweep or to the end of the sweeper, and a Shutdown leads to
\* the end of the sweeper or of the process, after which no sweep runs.
SweeperProgress ==
    /\ \A n \in 0..MaxTime :
           (proc.sweeper.tick /\ proc.sweeper.sweeps = n
                /\ ~proc.sweeper.stopped /\ Running)
               ~> (proc.sweeper.sweeps > n \/ proc.sweeper.stopped
                       \/ ~Running)
    /\ proc.sweeper.stopped ~> (proc.sweeper.pc = "done" \/ ~Running)
    /\ [][proc.sweeper.pc = "done" => ~IsSweeperRun]_vars

\* C34: the sweeper runs a sweep after every interval while the store is
\* not shut down; once Shutdown has been called no further sweep is
\* performed and the sweeper terminates; Shutdown returns.
C34_SweeperStopsAtShutdown ==
    /\ [][IsSweeperRun => ~proc.sweeper.stopped]_vars
    /\ [][IsStoreShutdown => proc'.exited = ""]_vars
    /\ [][proc.sweeper.pc = "done" => ~IsSweeperRun]_vars

\* The one call of Shutdown had returned when the select took the tick,
\* and the sweep has run.
C34_Witness ==
    /\ proc.sweeper.calls = 1
    /\ proc.sweeper.late
    /\ proc.exited = ""
    /\ proc.sweeper.sweeps = 1
    /\ proc.sweeper.pc = "select"
    /\ now = 1

\* C39: every call of MemoryCache.Shutdown, the first and any later one,
\* returns without a panic and leaves the sweeper stopped.
C39_ShutdownTwiceIsSafe ==
    [][IsStoreShutdown =>
           /\ proc'.exited = ""
           /\ proc'.sweeper.stopped]_vars

\* The second call of Shutdown has panicked.
C39_Witness ==
    /\ proc.sweeper.calls = 2
    /\ proc.exited = "panic"


(***************************************************************************)
(* The certificate store after a reload (SpecCert).                        *)
(***************************************************************************)
\* C40: a call of getCert that misses and inserts its leaf leaves at most
\* max_entries leaves in the store when max_entries > 0, also when a reload
\* had lowered max_entries below the number of leaves stored.
C40_MissRestoresLimit ==
    [][Minted /\ config.MaxCertCacheEntries > 0 =>
           Cardinality(DOMAIN certCache') <= config.MaxCertCacheEntries]_vars

\* The store held two leaves under max_entries = 0, a reload set
\* max_entries = 1, and the next miss read that limit, evicted one leaf,
\* inserted its own and left two.
C40_Witness ==
    \E g \in Goroutines :
        /\ getCertCalls[g].pc = "idle"
        /\ getCertCalls[g].branch = "minted"
        /\ getCertCalls[g].maxEntries = 1
        /\ getCertCalls[g].cert = serial
        /\ serial = 3
        /\ config.MaxCertCacheEntries = 1
        /\ certEvictions = 1
        /\ Cardinality(DOMAIN certCache) = 2


(***************************************************************************)
(* Periodic saves (SpecAutoSave).                                          *)
(***************************************************************************)
\* C31: with persistence enabled the running server has saved the store at
\* least once for every auto_save_interval that has passed, not only at
\* shutdown.
C31_SavesEveryInterval ==
    (proc.persist /\ Running) => proc.saves >= now

\* Persistence is enabled, the server has been listening for the longest
\* time of the model, nobody has asked for a shutdown and nothing has been
\* saved.
C31_Witness ==
    /\ proc.persist
    /\ Running
    /\ proc.server = "listening"
    /\ proc.main = "serving"
    /\ \A g \in ShutdownCallers : proc.sd[g].pc = "idle"
    /\ now = MaxTime
    /\ proc.saves = 0


(***************************************************************************)
(* Purges and requests in flight (SpecPurgeRace).                          *)
(***************************************************************************)
\* The handler invocation on c had missed and was waiting for the origin
\* when the last purge ran, and that purge removed the key of c.
WaitedThroughPurge(c) ==
    /\ c \in proc.purge.waiting
    /\ nreq = proc.purge.nreq
    /\ proc.purge.all \/ proc.purge.url = conn[c].cacheKey

\* C37: after a purge of a fingerprint (purge_one or purge_all) a lookup of
\* it finds nothing until a request that started after the purge inserts:
\* a request that had missed and was waiting for the origin when the purge
\* ran does not insert its response.
C37_PurgeNotUndoneByInFlight ==
    [][\A c \in Conns :
           (IsStoreStep(c) /\ WaitedThroughPurge(c)) =>
               conn[c].cacheKey \notin DOMAIN cache'.items]_vars

\* No request has started since the purge, and the fingerprint it purged
\* is in the store again: a request that waited through the purge has
\* inserted it.
C37_Witness ==
    \E c \in proc.purge.waiting :
        /\ nreq = proc.purge.nreq
        /\ conn[c].pc = "write"
        /\ proc.purge.url = conn[c].cacheKey
        /\ conn[c].cacheKey \in DOMAIN cache.items


(***************************************************************************)
(* Stored header maps (Spec).                                              *)
(***************************************************************************)
\* C32: the response stored under a key is not modified in place after
\* its insertion: while the store holds the same entry, with the same
\* header map, the contents of that map stay as they are, whatever the
\* handlers of the HTTP and the CONNECT path do.
C32_StoredResponseImmutable ==
    [][\A k \in (DOMAIN cache.items) \cap (DOMAIN cache'.items) :
           cache'.items[k].entry.Headers = cache.items[k].entry.Headers =>
               /\ heap'[cache.items[k].entry.Headers]
                      = heap[cache.items[k].entry.Headers]
               /\ cache'.items[k].entry.StatusCode
                      = cache.items[k].entry.StatusCode
               /\ cache'.items[k].entry.Body = cache.items[k].entry.Body]_vars

\* The header map of a stored entry carries the X-Cache: HIT that a hit
\* on the CONNECT path wrote into it.
C32_Witness ==
    \E k \in DOMAIN cache.items :
        /\ heap[cache.items[k].entry.Headers].XCache = <<"HIT">>
        /\ sent.handler = "handleHTTPS"
        /\ sent.out.served = "store"


(***************************************************************************)
(* The access logger (SpecAccessLogger).                                   *)
(***************************************************************************)
\* A step in which a call of Close returns.
IsCloseReturn == proc'.accessLog.returned = proc.accessLog.returned + 1

\* C36: when a call of Close returns, every entry that Log accepted has
\* been written; every entry counted in EntriesLogged is written in the
\* end, also when Log runs beside Close; and a call of Close, the first
\* or a later one, returns.
C36_CloseFlushesAcceptedEntries ==
    /\ [][IsCloseReturn =>
              proc'.accessLog.accepted \subseteq proc'.accessLog.written]_vars
    /\ \A e \in 1..MaxLogs :
           (e \in proc.accessLog.accepted) ~> (e \in proc.accessLog.written)
    /\ \A g \in Closers :
           (proc.accessLog.closer[g] = "wait")
               ~> (proc.accessLog.closer[g] = "idle")

\* The part of C36 that holds: every call of Close returns, and a worker
\* that has seen done ends.
CloseAlwaysReturns ==
    /\ \A g \in Closers :
           (proc.accessLog.closer[g] = "wait")
               ~> (proc.accessLog.closer[g] = "idle")
    /\ proc.accessLog.done ~> (proc.accessLog.worker = "exited")

\* Close has returned, the worker has ended, and the entry that a Log
\* beside Close put into the channel is counted and will not be written.
C36_Witness ==
    /\ proc.accessLog.returned = 1
    /\ \A g \in Closers : proc.accessLog.closer[g] = "idle"
    /\ proc.accessLog.worker = "exited"
    /\ proc.accessLog.entriesLogged = 1
    /\ proc.accessLog.entries = <<1>>
    /\ proc.accessLog.written = {}

=============================================================================
